---- MODULE Spec2Model ----
(***************************************************************************)
(* Model of homework1/main.cpp: the metaball isoline visualiser.           *)
(*                                                                         *)
(*   grid::grid, calculate_function, value_to_color, interpolate_coords,   *)
(*   add_isoline, calculate_isolines and the key handling of main's frame  *)
(*   loop.                                                                 *)
(*                                                                         *)
(* A C++ float is the triple <<s, m, e>>: the sign bit s and the magnitude *)
(* m * 2^e with m odd and below 2^24 (m = 0, e = 0 for the two zeros).     *)
(* e = 128 holds the special values: <<s, 1, 128>> is +-Inf, <<0, 0, 128>> *)
(* is NaN.  Every operation rounds as the hardware does: to the nearest    *)
(* float, ties to even, with subnormals, overflow to Inf and signed zeros. *)
(***************************************************************************)
EXTENDS Integers, Sequences, FiniteSets, TLC

(***************************************************************************)
(* Bounds of the model.                                                    *)
(***************************************************************************)
\* largest grid width drawn as an input of grid::grid
MaxW == 2
\* largest grid height drawn as an input of grid::grid
MaxH == 2
\* largest number of grid vertices (width+1)*(height+1) of a drawn grid
MaxVerts == 6
\* field samples of the grid of one cell are drawn from 0..MaxVal
MaxVal == 2
\* field samples of the grids of two cells are drawn from 0..MaxValWide
MaxValWide == 1
\* largest isolines_count drawn as an input of calculate_isolines
MaxCount == 2
\* the calls of apply_movement followed
MaxMoves == 7
\* the frames of main's loop followed, any of the four keys held
MaxFrames == 2
\* the frames of main's loop followed, LEFT or RIGHT held
MaxCountFrames == 6
\* the frames of main's loop followed, UP or DOWN held
MaxResizeFrames == 13

(***************************************************************************)
(* float arithmetic: IEEE 754 binary32, round to nearest, ties to even     *)
(***************************************************************************)
\* the element of a set of one element.  In The({e : x \in {a}}) the value
\* of a is worked out once and x stands for it in e, however often e uses it
The(S) == CHOOSE x \in S : TRUE

\* 2^k, for the shifts of the arithmetic
Pow2 == [k \in 0..30 |-> 2^k]

\* the number of bits of n, 0 <= n < 256
BitLen8(n) ==
    IF n < 16
    THEN (IF n < 4 THEN (IF n < 2 THEN n ELSE 2) ELSE (IF n < 8 THEN 3 ELSE 4))
    ELSE (IF n < 64 THEN (IF n < 32 THEN 5 ELSE 6) ELSE (IF n < 128 THEN 7 ELSE 8))

\* the number of bits of n, 0 <= n < 2^31
BitLen(n) ==
    IF n < 65536
    THEN (IF n < 256 THEN BitLen8(n) ELSE 8 + BitLen8(n \div 256))
    ELSE (IF n < 16777216 THEN 16 + BitLen8(n \div 65536)
          ELSE 24 + BitLen8(n \div 16777216))

\* the number of zero bits at the low end of n, n not a multiple of 256
TrailingZeros8(n) ==
    IF n % 16 # 0
    THEN (IF n % 4 # 0 THEN (IF n % 2 # 0 THEN 0 ELSE 1)
          ELSE (IF n % 8 # 0 THEN 2 ELSE 3))
    ELSE (IF n % 64 # 0 THEN (IF n % 32 # 0 THEN 4 ELSE 5)
          ELSE (IF n % 128 # 0 THEN 6 ELSE 7))

\* the number of zero bits at the low end of n, 0 < n < 2^31
TrailingZeros(n) ==
    IF n % 65536 # 0
    THEN (IF n % 256 # 0 THEN TrailingZeros8(n) ELSE 8 + TrailingZeros8(n \div 256))
    ELSE (IF n % 16777216 # 0 THEN 16 + TrailingZeros8(n \div 65536)
          ELSE 24 + TrailingZeros8(n \div 16777216))

\* the significand of a float has 24 bits
MantissaBits == 24
\* the last bit of the smallest subnormal float is 2^-149
MinExp == -149
\* 2^128 is the first power of two that is no float: the exponent of Inf and NaN
ExpInf == 128

\* +0 (s = 0) and -0 (s = 1)
Zero(s) == <<s, 0, 0>>

\* +Inf (s = 0) and -Inf (s = 1)
Inf(s) == <<s, 1, ExpInf>>

NaN == <<0, 0, ExpInf>>

IsNaN(a) == a[3] = ExpInf /\ a[2] = 0

IsInf(a) == a[3] = ExpInf /\ a[2] = 1

IsFinite(a) == a[3] # ExpInf

IsZero(a) == a[3] # ExpInf /\ a[2] = 0

\* the sign of a product or a quotient
Xor(s, t) == (s + t) % 2

\* the float of sign s and magnitude m * 2^e, m > 0 of at most 24 bits, in
\* the form with m odd; Inf from 2^128 on
Canon(s, m, e) ==
    The({ IF BitLen(m \div Pow2[t]) + e + t > ExpInf THEN Inf(s)
          ELSE <<s, m \div Pow2[t], e + t>> : t \in {TrailingZeros(m)} })

\* the exponent of the last bit a float keeps of a magnitude of L bits whose
\* last bit is 2^E: 24 bits are kept, and none below 2^-149
LastBit(L, E) ==
    IF L + E - MantissaBits < MinExp THEN MinExp ELSE L + E - MantissaBits

\* M + f without its last shift bits, rounded to nearest, a tie to even
Kept(M, sticky, shift) ==
    LET keep == IF shift > 30 THEN 0 ELSE M \div Pow2[shift]
        rem  == IF shift > 30 THEN M ELSE M % Pow2[shift]
        up   == IF shift > 31 THEN FALSE
                ELSE \/ rem > Pow2[shift - 1]
                     \/ rem = Pow2[shift - 1] /\ (sticky = 1 \/ keep % 2 = 1)
    IN  keep + (IF up THEN 1 ELSE 0)

\* the float nearest to the magnitude (M + f) * 2^E with sign s, where
\* 0 <= M < 2^31 and f = 0 when sticky = 0, 0 < f < 1 when sticky = 1 (M has
\* 27 bits or more then); a tie goes to the even significand, and what is
\* below 2^-126 keeps the bits down to 2^-149 only
RoundFloat(s, M, sticky, E) ==
    The({ IF n = 0 THEN Zero(s)
          ELSE The({ IF q <= x THEN Canon(s, n, x)
                     ELSE The({ IF r = 0 THEN Zero(s) ELSE Canon(s, r, q)
                                : r \in {Kept(n, sticky, q - x)} })
                     : q \in {LastBit(BitLen(n), x)} })
          : n \in {M}, x \in {E} })

\* int -> float conversion
F(n) == IF n < 0 THEN RoundFloat(1, -n, 0, 0) ELSE RoundFloat(0, n, 0, 0)

\* -a
FNeg(a) == The({ IF IsNaN(x) THEN NaN ELSE <<1 - x[1], x[2], x[3]>> : x \in {a} })

\* abs(float): the float overload (SDL.h brings in <stdlib.h> and <math.h>)
FAbs(a) == The({ IF IsNaN(x) THEN NaN ELSE <<0, x[2], x[3]>> : x \in {a} })

\* a + b for finite a, b that are not zero: exact when the sum fits 31 bits;
\* otherwise the operand of the smaller exponent is cut off below the 29
\* bits of the other and what is cut off is kept as the sticky bit
AddFinite(a, b) ==
    LET hi == IF a[3] >= b[3] THEN a ELSE b
        lo == IF a[3] >= b[3] THEN b ELSE a
        d  == hi[3] - lo[3]
        bh == BitLen(hi[2])
    IN  IF bh + d <= 30
        THEN LET A == hi[2] * Pow2[d]
                 S == (IF hi[1] = 1 THEN -A ELSE A)
                      + (IF lo[1] = 1 THEN -lo[2] ELSE lo[2])
             IN  RoundFloat(IF S < 0 THEN 1 ELSE 0, IF S < 0 THEN -S ELSE S,
                            0, lo[3])
        ELSE LET r == bh + d - 29
                 X == hi[2] * Pow2[d - r]
                 Y == IF r > 30 THEN 0 ELSE lo[2] \div Pow2[r]
             IN  IF hi[1] = lo[1]
                 THEN RoundFloat(hi[1], X + Y, 1, lo[3] + r)
                 ELSE RoundFloat(hi[1], X - Y - 1, 1, lo[3] + r)

\* a + b
FAdd(a, b) ==
    The({ IF IsNaN(x) \/ IsNaN(y) THEN NaN
          ELSE IF IsInf(x) THEN (IF IsInf(y) /\ x[1] # y[1] THEN NaN ELSE x)
          ELSE IF IsInf(y) THEN y
          ELSE IF IsZero(x) /\ IsZero(y)
               THEN (IF x[1] = 1 /\ y[1] = 1 THEN Zero(1) ELSE Zero(0))
          ELSE IF IsZero(x) THEN y
          ELSE IF IsZero(y) THEN x
          ELSE AddFinite(x, y) : x \in {a}, y \in {b} })

\* a - b
FSub(a, b) == FAdd(a, FNeg(b))

\* a * b for finite a, b that are not zero: the 48-bit product of the
\* significands is made of 12-bit halves and cut to 29 bits and a sticky bit
MulFinite(a, b) ==
    IF BitLen(a[2]) + BitLen(b[2]) <= 30
    THEN RoundFloat(Xor(a[1], b[1]), a[2] * b[2], 0, a[3] + b[3])
    ELSE LET a1  == a[2] \div 4096
             a0  == a[2] % 4096
             b1  == b[2] \div 4096
             b0  == b[2] % 4096
             mid == a1 * b0 + a0 * b1
             los == a0 * b0 + (mid % 4096) * 4096
         IN  The({ RoundFloat(Xor(a[1], b[1]),
                              hi * Pow2[29 - BitLen(hi)]
                                + lo \div Pow2[BitLen(hi) - 5],
                              IF lo % Pow2[BitLen(hi) - 5] # 0 THEN 1 ELSE 0,
                              a[3] + b[3] + BitLen(hi) - 5)
                   : hi \in {a1 * b1 + mid \div 4096 + los \div Pow2[24]},
                     lo \in {los % Pow2[24]} })

\* a * b
FMul(a, b) ==
    The({ IF IsNaN(x) \/ IsNaN(y) THEN NaN
          ELSE IF IsInf(x) \/ IsInf(y)
               THEN (IF IsZero(x) \/ IsZero(y) THEN NaN ELSE Inf(Xor(x[1], y[1])))
          ELSE IF IsZero(x) \/ IsZero(y) THEN Zero(Xor(x[1], y[1]))
          ELSE MulFinite(x, y) : x \in {a}, y \in {b} })

\* long division: four more bits of the quotient q per step, until it has
\* 27 bits or more; rem < m is the remainder, k the bits made
RECURSIVE DivLoop(_, _, _, _)
DivLoop(q, rem, m, k) ==
    IF q >= Pow2[26] THEN [q |-> q, rem |-> rem, k |-> k]
    ELSE The({ DivLoop(16 * q + n \div m, n % m, m, k + 4) : n \in {16 * rem} })

\* a / b for finite a, b that are not zero
DivFinite(a, b) ==
    The({ RoundFloat(Xor(a[1], b[1]), r.q, IF r.rem # 0 THEN 1 ELSE 0,
                     a[3] - b[3] - r.k)
          : r \in {The({ DivLoop(n \div b[2], n % b[2], b[2], 30 - BitLen(a[2]))
                         : n \in {a[2] * Pow2[30 - BitLen(a[2])]} })} })

\* a / b; x/0 is +-Inf, 0/0 is NaN
FDiv(a, b) ==
    The({ IF IsNaN(x) \/ IsNaN(y) THEN NaN
          ELSE IF IsInf(x) THEN (IF IsInf(y) THEN NaN ELSE Inf(Xor(x[1], y[1])))
          ELSE IF IsInf(y) THEN Zero(Xor(x[1], y[1]))
          ELSE IF IsZero(y) THEN (IF IsZero(x) THEN NaN ELSE Inf(Xor(x[1], y[1])))
          ELSE IF IsZero(x) THEN Zero(Xor(x[1], y[1]))
          ELSE DivFinite(x, y) : x \in {a}, y \in {b} })

\* |a| < |b| for finite a, b that are not zero
MagLt(a, b) ==
    LET ta == BitLen(a[2]) + a[3]
        tb == BitLen(b[2]) + b[3]
    IN  IF ta # tb THEN ta < tb
        ELSE IF a[3] >= b[3] THEN a[2] * Pow2[a[3] - b[3]] < b[2]
        ELSE a[2] < b[2] * Pow2[b[3] - a[3]]

\* a < b; false when either side is NaN
FLt(a, b) ==
    The({ IF IsNaN(x) \/ IsNaN(y) THEN FALSE
          ELSE IF IsZero(x) /\ IsZero(y) THEN FALSE
          ELSE IF x[1] # y[1] THEN x[1] = 1
          ELSE IF IsZero(x) THEN x[1] = 0
          ELSE IF IsZero(y) THEN x[1] = 1
          ELSE IF IsInf(x) THEN (x[1] = 1 /\ ~IsInf(y))
          ELSE IF IsInf(y) THEN x[1] = 0
          ELSE IF x[1] = 0 THEN MagLt(x, y) ELSE MagLt(y, x)
          : x \in {a}, y \in {b} })

\* a == b; false when either side is NaN, true of +0 and -0
FEq(a, b) ==
    The({ /\ ~IsNaN(x)
          /\ ~IsNaN(y)
          /\ (x = y \/ (IsZero(x) /\ IsZero(y))) : x \in {a}, y \in {b} })

\* a <= b
FLe(a, b) == The({ FLt(x, y) \/ FEq(x, y) : x \in {a}, y \in {b} })

\* the float literal n/d (0.3f is Dec(3, 10)): the float nearest to it
Dec(n, d) == FDiv(F(n), F(d))

(***************************************************************************)
(* double arithmetic, for the two double products of value_to_color.  A    *)
(* natural number of any size is a sequence of limbs base 2^15, the lowest *)
(* first.                                                                  *)
(***************************************************************************)
Base == 32768

\* limb i of a, 0 beyond its length
Limb(a, i) == IF i \in 1..Len(a) THEN a[i] ELSE 0

\* the limbs of n, 0 <= n < 2^31
WNat(n) == <<n % Base, (n \div Base) % Base, n \div (Base * Base)>>

\* a without its leading zero limbs
RECURSIVE WTrim(_)
WTrim(a) ==
    The({ IF x # <<>> /\ x[Len(x)] = 0 THEN WTrim(SubSeq(x, 1, Len(x) - 1))
          ELSE x : x \in {a} })

\* the number of bits of a
WBitLen(a) ==
    The({ IF t = <<>> THEN 0 ELSE 15 * (Len(t) - 1) + BitLen(t[Len(t)])
          : t \in {WTrim(a)} })

RECURSIVE WAddFrom(_, _, _, _, _)
WAddFrom(a, b, i, carry, acc) ==
    IF i > Len(a) /\ i > Len(b)
    THEN (IF carry = 0 THEN acc ELSE Append(acc, carry))
    ELSE The({ WAddFrom(a, b, n, t \div Base, s)
               : t \in {Limb(a, i) + Limb(b, i) + carry}, n \in {i + 1},
                 s \in {Append(acc, (Limb(a, i) + Limb(b, i) + carry) % Base)} })

\* a + b
WAdd(a, b) == The({ WAddFrom(x, y, 1, 0, <<>>) : x \in {a}, y \in {b} })

RECURSIVE WSubFrom(_, _, _, _, _)
WSubFrom(a, b, i, borrow, acc) ==
    IF i > Len(a) THEN acc
    ELSE The({ WSubFrom(a, b, n, IF t < 0 THEN 1 ELSE 0, s)
               : t \in {Limb(a, i) - Limb(b, i) - borrow}, n \in {i + 1},
                 s \in {Append(acc, (Limb(a, i) - Limb(b, i) - borrow) % Base)} })

\* a - b, for a >= b
WSub(a, b) == The({ WSubFrom(x, y, 1, 0, <<>>) : x \in {a}, y \in {b} })

RECURSIVE WLessFrom(_, _, _)
WLessFrom(a, b, i) ==
    IF i = 0 THEN FALSE
    ELSE IF Limb(a, i) # Limb(b, i) THEN Limb(a, i) < Limb(b, i)
    ELSE WLessFrom(a, b, i - 1)

\* a < b
WLess(a, b) ==
    The({ WLessFrom(x, y, IF Len(x) > Len(y) THEN Len(x) ELSE Len(y))
          : x \in {a}, y \in {b} })

RECURSIVE WMulLimbFrom(_, _, _, _, _)
WMulLimbFrom(a, x, i, carry, acc) ==
    IF i > Len(a) THEN (IF carry = 0 THEN acc ELSE Append(acc, carry))
    ELSE The({ WMulLimbFrom(a, x, n, t \div Base, s)
               : t \in {a[i] * x + carry}, n \in {i + 1},
                 s \in {Append(acc, (a[i] * x + carry) % Base)} })

\* a * x for one limb x
WMulLimb(a, x) == The({ WMulLimbFrom(y, z, 1, 0, <<>>) : y \in {a}, z \in {x} })

\* n zero limbs
WZeros(n) == [i \in 1..n |-> 0]

RECURSIVE WMulFrom(_, _, _, _)
WMulFrom(a, b, j, acc) ==
    IF j > Len(b) THEN acc
    ELSE The({ WMulFrom(a, b, n, s)
               : n \in {j + 1},
                 s \in {WAdd(acc, WZeros(j - 1) \o WMulLimb(a, b[j]))} })

\* a * b
WMul(a, b) == The({ WMulFrom(x, y, 1, <<>>) : x \in {a}, y \in {b} })

\* a * 2^k
WShl(a, k) ==
    The({ WZeros(n \div 15) \o WMulLimb(a, Pow2[n % 15]) : n \in {k} })

\* the limbs of t from bit r on, 0 <= r < 15
RECURSIVE WShrFrom(_, _, _, _)
WShrFrom(t, r, i, acc) ==
    IF i > Len(t) THEN acc
    ELSE The({ WShrFrom(t, r, n, s)
               : n \in {i + 1},
                 s \in {Append(acc, t[i] \div Pow2[r]
                                      + (Limb(t, i + 1) % Pow2[r]) * Pow2[15 - r])} })

\* a \div 2^k
WShr(a, k) ==
    The({ The({ WShrFrom(t, n % 15, 1, <<>>)
                : t \in {SubSeq(x, n \div 15 + 1, Len(x))} })
          : x \in {a}, n \in {k} })

\* a % 2^k = 0
WLowZero(a, k) ==
    /\ \A i \in 1..(k \div 15) : Limb(a, i) = 0
    /\ Limb(a, k \div 15 + 1) % Pow2[k % 15] = 0

\* bit k of a
WBit(a, k) == (Limb(a, k \div 15 + 1) \div Pow2[k % 15]) % 2

\* a as an integer, for a < 2^31
WInt(a) == Limb(a, 1) + Limb(a, 2) * Base + Limb(a, 3) * Base * Base

\* the significand of a double has 53 bits
DoubleBits == 53

\* the double nearest to m * 2^e (m a wide natural), ties to even; the
\* doubles made here are far from the ends of the exponent range
RoundDouble(m, e) ==
    The({ IF shift <= 0 THEN [m |-> x, e |-> e]
          ELSE The({ [m |-> IF /\ WBit(x, shift - 1) = 1
                               /\ (~WLowZero(x, shift - 1) \/ WBit(keep, 0) = 1)
                            THEN WAdd(keep, WNat(1)) ELSE keep,
                      e |-> e + shift] : keep \in {WShr(x, shift)} })
          : x \in {m}, shift \in {WBitLen(m) - DoubleBits} })

\* double -> float conversion of the double m * 2^e of sign s
DoubleToFloat(s, m, e) ==
    The({ IF L <= 30 THEN RoundFloat(s, WInt(x), 0, e)
          ELSE RoundFloat(s, WInt(WShr(x, L - 29)),
                          IF WLowZero(x, L - 29) THEN 0 ELSE 1, e + L - 29)
          : x \in {m}, L \in {WBitLen(m)} })

\* the double literal 0.4: 0x3FD999999999999A = 3602879701896397 * 2^-53
Double04 == [m |-> <<19661, 6553, 13107, 102>>, e |-> -53]

\* the double literal 0.6: 0x3FE3333333333333 = 5404319552844595 * 2^-53
Double06 == [m |-> <<13107, 26214, 19660, 153>>, e |-> -53]

\* the double 1 - p for the double p = m * 2^e of sign s, p not zero: both
\* are written in units of 2^g and the difference is rounded to double
OneMinus(s, m, e, g) ==
    The({ The({ IF WBitLen(d.m) = 0 THEN Zero(0)
                ELSE The({ DoubleToFloat(d.s, r.m, r.e)
                           : r \in {RoundDouble(d.m, g)} })
                : d \in {IF s = 1 THEN [s |-> 0, m |-> WAdd(one, mag)]
                         ELSE IF WLess(one, mag)
                              THEN [s |-> 1, m |-> WSub(mag, one)]
                         ELSE [s |-> 0, m |-> WSub(one, mag)]} })
          : one \in {WShl(WNat(1), -g)}, mag \in {WShl(m, e - g)} })

\* 1 - k * c for the double literal k and the float c, the int 1 and c
\* converted to double, product and difference rounded to double, and the
\* double converted to float by the constructor of vec3
OneMinusTimes(k, c) ==
    The({ IF IsNaN(x) THEN NaN
          ELSE IF IsInf(x) THEN Inf(1 - x[1])
          ELSE IF IsZero(x) THEN F(1)
          ELSE The({ OneMinus(x[1], p.m, p.e, IF p.e < 0 THEN p.e ELSE 0)
                     : p \in {RoundDouble(WMul(k.m, WNat(x[2])), k.e + x[3])} })
          : x \in {c} })

\* std::min(a, b) == (b < a) ? b : a
StdMin(a, b) == The({ IF FLt(y, x) THEN y ELSE x : x \in {a}, y \in {b} })

\* std::max(a, b) == (a < b) ? b : a
StdMax(a, b) == The({ IF FLt(x, y) THEN y ELSE x : x \in {a}, y \in {b} })

(***************************************************************************)
(* grid::grid                                                              *)
(***************************************************************************)
\* float x = 2.f / width * j - 1;
GridX(w, j) == FSub(FMul(FDiv(F(2), F(w)), F(j)), F(1))

\* float y = -(2.f / height * i - 1);
GridY(h, i) == FNeg(FSub(FMul(FDiv(F(2), F(h)), F(i)), F(1)))

\* the position loops: for i in 0..height, for j in 0..width: push_back
RECURSIVE GridPositions(_, _, _, _, _)
GridPositions(w, h, i, j, acc) ==
    IF ~(i <= h) THEN acc
    ELSE IF ~(j <= w) THEN GridPositions(w, h, i + 1, 0, acc)
    ELSE GridPositions(w, h, i, j + 1,
                       Append(acc, [x |-> GridX(w, j), y |-> GridY(h, i)]))

\* mutant of CellTriangles: the bottom-right corner is one vertex too far
CellTrianglesTooFar(w, ind) ==
    <<ind + w + 1, ind + 1, ind, ind + 1, ind + w + 1, ind + w + 3>>

\* mutant of CellTriangles: the last two vertices of the second triangle are
\* pushed in the other order
CellTrianglesSecondTurned(w, ind) ==
    <<ind + w + 1, ind + 1, ind, ind + 1, ind + w + 2, ind + w + 1>>

\* the six indices pushed for the cell whose top-left vertex is ind
CellTriangles(w, ind) ==
    <<ind + w + 1, ind + 1, ind, ind + 1, ind + w + 1, ind + w + 2>>

\* the index loops: for i in 0..height-1, for j in 0..width-1
RECURSIVE GridIndices(_, _, _, _, _)
GridIndices(w, h, i, j, acc) ==
    IF ~(i < h) THEN acc
    ELSE IF ~(j < w) THEN GridIndices(w, h, i + 1, 0, acc)
    ELSE GridIndices(w, h, i, j + 1, acc \o CellTriangles(w, i * (w + 1) + j))

\* grid(width, height)
Grid(w, h) ==
    [width     |-> w,
     height    |-> h,
     positions |-> GridPositions(w, h, 0, 0, <<>>),
     indices   |-> GridIndices(w, h, 0, 0, <<>>)]

(***************************************************************************)
(* metaball_function: the sources and apply_movement                       *)
(***************************************************************************)
\* {position, direction, r, c}
Metaball(px, py, dx, dy, r, c) ==
    [position |-> [x |-> px, y |-> py], direction |-> [x |-> dx, y |-> dy],
     r |-> r, c |-> c]

\* std::vector<metaball> metaballs = {...}
InitialMetaballs ==
    << Metaball(F(1), Dec(-3, 10), F(0), Dec(5, 10), Dec(12, 10), Dec(12, 10)),
       Metaball(Dec(6, 10), Dec(-4, 10), Dec(-5, 10), Dec(-7, 10), Dec(-13, 10), Dec(9, 10)),
       Metaball(F(1), F(0), Dec(6, 10), Dec(1, 10), Dec(15, 10), Dec(13, 10)),
       Metaball(F(0), Dec(5, 10), F(1), Dec(-3, 10), Dec(13, 10), Dec(12, 10)),
       Metaball(Dec(6, 10), Dec(1, 10), Dec(-5, 10), Dec(-7, 10), Dec(12, 10), Dec(9, 10)),
       Metaball(F(1), Dec(-7, 10), F(-1), Dec(7, 10), Dec(8, 10), Dec(15, 10)),
       Metaball(F(0), F(0), Dec(-9, 10), Dec(5, 10), Dec(15, 10), Dec(5, 10)),
       Metaball(F(-1), F(0), F(-1), Dec(5, 10), Dec(9, 10), Dec(15, 10)),
       Metaball(Dec(-3, 10), Dec(2, 10), Dec(-1, 10), Dec(6, 10), Dec(11, 10), Dec(7, 10)) >>

\* the frame times apply_movement is called with
MoveDts == {Dec(1, 2), F(1), F(4)}

\* the frame time of the long runs of the frame loop
StepDts == {Dec(1, 2)}

\* mutant of Flip: the component is set to -1
FlipAssign(v) == F(-1)

\* direction *= -1
Flip(v) == FMul(v, F(-1))

\* mutant of Bounce: the test is abs(position) >= 5.f
BounceInclusive(position, direction) ==
    IF FLe(F(5), FAbs(position)) THEN Flip(direction) ELSE direction

\* if (abs(position) > 5.f) direction *= -1;  on one axis, position being
\* the position after the step
Bounce(position, direction) ==
    IF FLt(F(5), FAbs(position)) THEN Flip(direction) ELSE direction

\* the body of the loop of apply_movement for one metaball
MoveMetaball(metaball, dt) ==
    The({ [metaball EXCEPT !.position = [x |-> px, y |-> py],
                           !.direction = [x |-> Bounce(px, metaball.direction.x),
                                          y |-> Bounce(py, metaball.direction.y)]]
          : px \in {FAdd(metaball.position.x, FMul(dt, metaball.direction.x))},
            py \in {FAdd(metaball.position.y, FMul(dt, metaball.direction.y))} })

\* for (auto& metaball: metaballs)
apply_movement(metaballs, dt) ==
    [b \in 1..Len(metaballs) |-> MoveMetaball(metaballs[b], dt)]

(***************************************************************************)
(* calculate_function and metaball_function::value_to_color                *)
(***************************************************************************)
\* float min_value = 1e9;
InitMinValue == 1000000000
\* float max_value = -1e9;
InitMaxValue == -1000000000

\* a double: (-1)^s * m * 2^e, m a wide natural (zero when it has no bit)
\* (double) x for a finite float x
FloatToDouble(x) == [s |-> x[1], m |-> WNat(x[2]), e |-> x[3]]

\* a * b before it is rounded
DTimes(a, b) ==
    The({ [s |-> Xor(u.s, v.s), m |-> WMul(u.m, v.m), e |-> u.e + v.e]
          : u \in {a}, v \in {b} })

\* the term b of a + b as the rounded sum sees it: when b lies wholly below
\* 2^-64 of the last bit of a, only its sign and that it is not zero bear on
\* the nearest double, and b is taken as one unit of 2^-64 of that bit
DFar(a, b) ==
    The({ IF u.e - (v.e + WBitLen(v.m)) >= 64
          THEN [s |-> v.s, m |-> WNat(1), e |-> u.e - 64] ELSE v
          : u \in {a}, v \in {b} })

\* a + b before it is rounded, for a and b not zero: both in units of 2^g,
\* g the lower exponent
DPlusAligned(a, b) ==
    The({ The({ The({ IF u.s = v.s THEN [s |-> u.s, m |-> WAdd(x, y), e |-> g]
                      ELSE IF WLess(x, y) THEN [s |-> v.s, m |-> WSub(y, x), e |-> g]
                      ELSE [s |-> u.s, m |-> WSub(x, y), e |-> g]
                      : x \in {WShl(u.m, u.e - g)}, y \in {WShl(v.m, v.e - g)} })
                : g \in {IF u.e < v.e THEN u.e ELSE v.e} })
          : u \in {a}, v \in {b} })

\* a + b before it is rounded
DPlus(a, b) ==
    The({ IF WBitLen(u.m) = 0 THEN v
          ELSE IF WBitLen(v.m) = 0 THEN u
          ELSE DPlusAligned(DFar(v, u), DFar(u, v))
          : u \in {a}, v \in {b} })

\* the double nearest to x
DRound(x) ==
    The({ IF WBitLen(u.m) = 0 THEN [s |-> 0, m |-> <<>>, e |-> 0]
          ELSE The({ [s |-> u.s, m |-> r.m, e |-> r.e]
                     : r \in {RoundDouble(u.m, u.e)} })
          : u \in {x} })

\* fma(a, b, c): a * b + c rounded once (vfmadd)
Fma(a, b, c) == DRound(DPlus(DTimes(a, b), c))

\* the data of expf (__exp2f_data, N = 32): tab[i + 1] is the significand
\* of the double 2^(i/N), shift = 0x1.8p+52, invln2_scaled = N / ln 2, and
\* poly_scaled the coefficients C[0], C[1], C[2]
exp2f_data ==
    [tab |-> <<
           <<0, 0, 0, 128>>, <<1396, 9771, 26307, 130>>,
           <<2319, 23027, 21857, 133>>, <<23377, 8228, 19463, 136>>,
           <<20859, 30970, 19168, 139>>, <<14762, 25297, 21020, 142>>,
           <<25144, 23786, 25065, 145>>, <<24289, 27199, 31351, 148>>,
           <<14101, 5219, 7160, 152>>, <<10699, 28277, 18076, 155>>,
           <<13346, 6180, 31385, 158>>, <<2349, 16579, 14369, 162>>,
           <<10791, 10860, 32619, 165>>, <<20354, 11578, 20653, 169>>,
           <<21545, 14992, 11295, 173>>, <<21893, 24692, 4602, 177>>,
           <<15309, 19710, 633, 181>>, <<24436, 20952, 32215, 184>>,
           <<391, 26582, 1105, 189>>, <<19987, 12953, 5670, 193>>,
           <<8411, 1109, 13205, 197>>, <<17893, 24987, 23774, 201>>,
           <<28816, 1351, 4678, 206>>, <<9565, 25724, 21518, 210>>,
           <<21421, 12981, 8830, 215>>, <<24135, 26102, 32219, 219>>,
           <<21148, 15114, 26223, 224>>, <<4201, 14815, 23683, 229>>,
           <<9351, 14839, 24675, 234>>, <<7007, 26359, 29276, 239>>,
           <<4314, 17737, 4798, 245>>, <<17728, 14044, 16857, 250>> >>,
     shift |-> [s |-> 0, m |-> <<0, 0, 0, 192>>, e |-> 0],
     invln2_scaled |-> [s |-> 0, m |-> <<766, 19031, 21789, 184>>, e |-> -47],
     poly_scaled |-> << [s |-> 0, m |-> <<9108, 5922, 11233, 227>>, e |-> -72],
                        [s |-> 0, m |-> <<17651, 8693, 32569, 245>>, e |-> -65],
                        [s |-> 0, m |-> <<21206, 32280, 14603, 177>>, e |-> -58] >>]

\* the float arguments at which expf leaves its main path: above
\* 0x1.62e42ep6 (log 2^128) the result overflows, below -0x1.9fe368p6
\* (log 2^-150) it is 0, below -0x1.9d1d9ep6 (log 2^-149) it is the result
\* of 0x1.4p-75f * 0x1.4p-75f, the smallest float above 0
ExpBounds ==
    [oflow |-> <<0, 11629079, -17>>, uflow |-> <<1, 3406957, -15>>,
     may_uflow |-> <<1, 13536975, -17>>, tiny |-> <<0, 1, -149>>]

\* the main path of expf for a finite float x: x * N / ln 2 = k + r with k
\* an integer, exp(x) = 2^(k/N) * 2^(r/N) with 2^(k/N) from the table and
\* 2^(r/N) a polynomial in r; all in double, the sums of a product and a
\* term fused, the result converted to float
ExpMain(x) ==
    The({ The({ The({ The({ The({ The({ DoubleToFloat(0, res.m, res.e)
        : res \in {DRound(DTimes(y, s))} })
        : y \in {Fma(z, r2, y1)} })
        : z  \in {Fma(r, exp2f_data.poly_scaled[1], exp2f_data.poly_scaled[2])},
          r2 \in {DRound(DTimes(r, r))},
          y1 \in {Fma(r, exp2f_data.poly_scaled[3], FloatToDouble(F(1)))},
          s  \in {[s |-> 0, m |-> exp2f_data.tab[(k % 32) + 1], e |-> (k \div 32) - 52]} })
        : k \in {IF kd.s = 1 THEN -WInt(kd.m) ELSE WInt(kd.m)},
          r \in {Fma(exp2f_data.invln2_scaled, xd, [kd EXCEPT !.s = 1 - kd.s])} })
        : kd \in {DRound(DPlus(kd0, [exp2f_data.shift EXCEPT !.s = 1]))} })
        : xd  \in {FloatToDouble(x)},
          kd0 \in {Fma(exp2f_data.invln2_scaled, FloatToDouble(x), exp2f_data.shift)} })

\* exp(a) for a float a: std::exp(float), which is expf of the C library
Exp(a) ==
    The({ IF IsNaN(x) THEN NaN
          ELSE IF IsInf(x) THEN (IF x[1] = 1 THEN Zero(0) ELSE x)
          ELSE IF FLt(ExpBounds.oflow, x) THEN Inf(0)
          ELSE IF FLt(x, ExpBounds.uflow) THEN Zero(0)
          ELSE IF FLt(x, ExpBounds.may_uflow) THEN ExpBounds.tiny
          ELSE ExpMain(x) : x \in {a} })

\* c_i * exp(-((x - x_i) * (x - x_i) + (y - y_i) * (y - y_i)) / r_i / r_i)
\* for one metaball
SourceTerm(metaball, x, y) ==
    The({ The({ The({ FMul(metaball.c, e) : e \in {Exp(a)} })
                : a \in {FDiv(FDiv(FNeg(FAdd(FMul(dx, dx), FMul(dy, dy))),
                                   metaball.r), metaball.r)} })
          : dx \in {FSub(x, metaball.position.x)},
            dy \in {FSub(y, metaball.position.y)} })

\* the terms of the loop over the sources, in the order of the loop
SourceTerms(metaballs, x, y) ==
    <<>> \o [b \in 1..Len(metaballs) |-> SourceTerm(metaballs[b], x, y)]

\* for (auto& metaball : metaballs) result += c_i * exp(...);
RECURSIVE SourceLoop(_, _, _)
SourceLoop(terms, b, result) ==
    IF b > Len(terms) THEN result
    ELSE The({ SourceLoop(terms, n, next)
               : next \in {FAdd(result, terms[b])}, n \in {b + 1} })

\* function.calculate(x, y): x *= 5.f; y *= 5.f; float result = 0.0;
\* the loop over the sources; result /= 5.f;
calculate(metaballs, x, y) ==
    The({ The({ FDiv(SourceLoop(terms, 1, Zero(0)), F(5))
                : terms \in {SourceTerms(metaballs, sx, sy)} })
          : sx \in {FMul(x, F(5))}, sy \in {FMul(y, F(5))} })

\* the radius of the sources drawn for the pipeline
SourceRadius == Dec(1, 16)

\* a source of strength c sitting on a grid position: calculate scales the
\* position by 5.  With r = 1/16 the source adds c / 5 to the sample at its
\* own position and 0 to the sample at every other position of the grid.
SourceOn(position, c) ==
    Metaball(FMul(position.x, F(5)), FMul(position.y, F(5)), F(0), F(0),
             SourceRadius, c)

\* function.metaballs with one source on every grid position, field[p] the
\* strength of the source on the p-th position
SourcesOn(positions, field) ==
    [p \in 1..Len(positions) |-> SourceOn(positions[p], field[p])]

\* the strengths drawn: the samples are the integers 0..n
Strengths(n) == {F(5 * v) : v \in 0..n}

\* two more strengths, drawn on the grid of one cell only: 5 * 2^-80, whose
\* sample 2^-80 is so small that a product of two differences underflows,
\* and 5 + 2^-21, whose sample 1 + 2^-23 is the float next to 1
FineStrengths == {<<0, 5, -80>>, <<0, 10485761, -21>>}

\* the fields drawn on the positions of a grid, and the fields whose every
\* strength is 5 * 2^31 or -5 * 2^31: their samples 2^31 and -2^31 lie
\* beyond 1e9 and -1e9, the values min_value and max_value start from
FieldsOn(positions) ==
    [1..Len(positions) ->
       IF Len(positions) = 4 THEN Strengths(MaxVal) \cup FineStrengths
       ELSE Strengths(MaxValWide)]
    \cup [1..Len(positions) -> {<<0, 5, 31>>, <<1, 5, 31>>}]

\* float c = (value - min_value) / (max_value - min_value);
\* return vec3(1 - 0.4 * c, 1 - 0.6 * c, 1 - c);
value_to_color(value, min_value, max_value) ==
    The({ [r |-> OneMinusTimes(Double04, c),
           g |-> OneMinusTimes(Double06, c),
           b |-> FSub(F(1), c)]
          : c \in {FDiv(FSub(value, min_value), FSub(max_value, min_value))} })

\* values.push_back(function.calculate(position.x, position.y)) for every
\* position of the grid, in the order of the loop
SampleValues(positions, metaballs) ==
    <<>> \o [p \in 1..Len(positions) |->
               calculate(metaballs, positions[p].x, positions[p].y)]

\* the sampling loop over grid.positions, tracking the running min and max
RECURSIVE SampleLoop(_, _, _)
SampleLoop(values, p, acc) ==
    IF p > Len(values) THEN acc
    ELSE The({ SampleLoop(values, n, next)
               : next \in {[values    |-> Append(acc.values, values[p]),
                            min_value |-> StdMin(acc.min_value, values[p]),
                            max_value |-> StdMax(acc.max_value, values[p])]},
                 n \in {p + 1} })

\* for (auto value : values) colors.push_back(value_to_color(...))
ColorLoop(values, min_value, max_value) ==
    <<>> \o [n \in 1..Len(values) |->
               value_to_color(values[n], min_value, max_value)]

\* calculate_function(grid, function)
calculate_function(grid, metaballs) ==
    The({ The({ [values    |-> s.values,
                 colors    |-> ColorLoop(s.values, s.min_value, s.max_value),
                 min_value |-> s.min_value,
                 max_value |-> s.max_value]
                : s \in {SampleLoop(values, 1,
                                    [values    |-> <<>>,
                                     min_value |-> F(InitMinValue),
                                     max_value |-> F(InitMaxValue)])} })
          : values \in {SampleValues(grid.positions, metaballs)} })

(***************************************************************************)
(* interpolate_coords                                                      *)
(***************************************************************************)
interpolate_coords(coord1, coord2, value1, value2, value) ==
    LET t == FDiv(FSub(value, value1), FSub(value2, value1))
    IN  IF FEq(coord1.y, coord2.y)
        THEN [x |-> FAdd(coord1.x, FMul(t, FSub(coord2.x, coord1.x))),
              y |-> coord1.y]
        ELSE [x |-> coord1.x,
              y |-> FAdd(coord1.y, FMul(t, FSub(coord2.y, coord1.y)))]

(***************************************************************************)
(* add_isoline: the body of the cell loop                                  *)
(***************************************************************************)
\* int grid_inds[4] = {ind, ind + width + 1, ind + width + 2, ind + 1};
\* corner k of the code is element k + 1 here
GridInds(w, ind) == <<ind, ind + w + 1, ind + w + 2, ind + 1>>

\* float grid_cells_values[4]: the corner values minus the isoline value
GridCellsValues(values, grid_inds, isoline_value) ==
    << FSub(values[grid_inds[1] + 1], isoline_value),
       FSub(values[grid_inds[2] + 1], isoline_value),
       FSub(values[grid_inds[3] + 1], isoline_value),
       FSub(values[grid_inds[4] + 1], isoline_value) >>

\* mutant of Positive: the test is val < 0
PositiveCountsNegative(d) == Cardinality({k \in 1..4 : FLt(d[k], F(0))})

\* positive += val > 0
Positive(d) == Cardinality({k \in 1..4 : FLt(F(0), d[k])})

\* grid_cells_values[a] * grid_cells_values[b] < 0
ProdNeg(d, a, b) == FLt(FMul(d[a + 1], d[b + 1]), F(0))

\* grid_cells_values[a] * grid_cells_values[b] > 0
ProdPos(d, a, b) == FLt(F(0), FMul(d[a + 1], d[b + 1]))

\* mutant of CornerLoop: the first neighbour is the opposite corner (k + 2) % 4
RECURSIVE CornerLoopOpposite(_, _, _)
CornerLoopOpposite(d, k, acc) ==
    IF ~(k < 4) THEN acc
    ELSE IF ProdNeg(d, k, (k + 2) % 4) /\ ProdNeg(d, k, (k + 1) % 4)
         THEN CornerLoopOpposite(d, k + 1,
                         acc \o << <<k, (k + 2) % 4>>, <<k, (k + 1) % 4>> >>)
         ELSE CornerLoopOpposite(d, k + 1, acc)

\* mutant of CornerLoop: the second push_back of a corner is missing
RECURSIVE CornerLoopOnePair(_, _, _)
CornerLoopOnePair(d, k, acc) ==
    IF ~(k < 4) THEN acc
    ELSE IF ProdNeg(d, k, (k + 3) % 4) /\ ProdNeg(d, k, (k + 1) % 4)
         THEN CornerLoopOnePair(d, k + 1, acc \o << <<k, (k + 3) % 4>> >>)
         ELSE CornerLoopOnePair(d, k + 1, acc)

\* case 1, case 3: the loop over the corners k = 0..3
RECURSIVE CornerLoop(_, _, _)
CornerLoop(d, k, acc) ==
    IF ~(k < 4) THEN acc
    ELSE IF ProdNeg(d, k, (k + 3) % 4) /\ ProdNeg(d, k, (k + 1) % 4)
         THEN CornerLoop(d, k + 1,
                         acc \o << <<k, (k + 3) % 4>>, <<k, (k + 1) % 4>> >>)
         ELSE CornerLoop(d, k + 1, acc)

\* mutant of CaseTwo: the pairs of the first two branches are exchanged
CaseTwoSwapped(d) ==
    IF ProdPos(d, 0, 1) THEN << <<0, 1>>, <<2, 3>> >>
    ELSE IF ProdPos(d, 0, 3) THEN << <<0, 3>>, <<1, 2>> >>
    ELSE << <<0, 1>>, <<1, 2>>, <<0, 3>>, <<2, 3>> >>

\* mutant of CaseTwo: the last branch picks one pairing of the four edges
CaseTwoOnePairing(d) ==
    IF ProdPos(d, 0, 1) THEN << <<0, 3>>, <<1, 2>> >>
    ELSE IF ProdPos(d, 0, 3) THEN << <<0, 1>>, <<2, 3>> >>
    ELSE << <<0, 1>>, <<1, 2>> >>

\* case 2
CaseTwo(d) ==
    IF ProdPos(d, 0, 1) THEN << <<0, 3>>, <<1, 2>> >>
    ELSE IF ProdPos(d, 0, 3) THEN << <<0, 1>>, <<2, 3>> >>
    ELSE << <<0, 1>>, <<1, 2>>, <<0, 3>>, <<2, 3>> >>

\* mutant of NeedsInterpolation: cases 4, 0 and default fall into case 2
NeedsInterpolationFallThrough(d) ==
    LET positive == Positive(d)
    IN  IF positive \in {1, 3} THEN CornerLoop(d, 0, <<>>)
        ELSE CaseTwo(d)

\* switch (positive): the corner pairs put into needs_interpolation
NeedsInterpolation(d) ==
    LET positive == Positive(d)
    IN  IF positive \in {1, 3} THEN CornerLoop(d, 0, <<>>)
        ELSE IF positive = 2 THEN CaseTwo(d)
        ELSE <<>>

\* std::pair(grid_inds[pair.first], grid_inds[pair.second]): the cache key
CacheKey(grid_inds, pair) == <<grid_inds[pair[1] + 1], grid_inds[pair[2] + 1]>>

\* for (auto pair : needs_interpolation): look the key up in the cache,
\* interpolate and insert on a miss, push the index.  st holds the isoline
\* positions and indices, the cache and the interpolate_coords calls made.
RECURSIVE ResolveLoop(_, _, _, _, _, _, _)
ResolveLoop(needs, n, grid_inds, grid, values, isoline_value, st) ==
    IF n > Len(needs) THEN st
    ELSE
      LET indexes == CacheKey(grid_inds, needs[n])
      IN  IF indexes \in DOMAIN st.cache
          THEN The({ ResolveLoop(needs, n + 1, grid_inds, grid, values,
                                 isoline_value, next)
                     : next \in {[st EXCEPT !.indices =
                                              Append(@, st.cache[indexes])]} })
          ELSE
            LET c1  == grid.positions[indexes[1] + 1]
                c2  == grid.positions[indexes[2] + 1]
                v1  == values[indexes[1] + 1]
                v2  == values[indexes[2] + 1]
                new == Len(st.positions)
            IN  The({ The({ ResolveLoop(needs, n + 1, grid_inds, grid, values,
                                        isoline_value, next)
                            : next \in {[positions |-> Append(st.positions, pos),
                                         indices   |-> Append(st.indices, new),
                                         cache     |-> (indexes :> new) @@ st.cache,
                                         calls     |-> Append(st.calls,
                                           [coord1 |-> c1, coord2 |-> c2,
                                            value1 |-> v1, value2 |-> v2,
                                            value  |-> isoline_value,
                                            result |-> pos])]} })
                      : pos \in {interpolate_coords(c1, c2, v1, v2,
                                                    isoline_value)} })

\* the isoline value of pass i of calculate_isolines
IsolineValue(fv, i, count) ==
    FAdd(fv.min_value,
         FDiv(FMul(FSub(fv.max_value, fv.min_value), F(i)), F(count + 1)))

(***************************************************************************)
(* State                                                                   *)
(***************************************************************************)
VARIABLES
    pc,                \* control position
    width, height,     \* the arguments of grid::grid
    isolines_count,    \* main's isolines_count, the argument of calculate_isolines
    current_grid,      \* the grid
    function_values,   \* the result of calculate_function
    isolines,          \* the isolines object built by calculate_isolines
    i_iso,             \* loop variable i of calculate_isolines
    isoline_value,     \* the isoline_value argument of the running add_isoline
    cell_i, cell_j,    \* loop variables i, j of add_isoline
    indices_after_interpolation,  \* add_isoline's cache
    needs_interpolation,          \* the corner pairs of the last cell
    interp_calls,      \* the interpolate_coords calls of the last cell
    levels,            \* the isoline values passed to add_isoline so far
    field,             \* the strengths of the sources drawn for the pipeline, one
                       \* on each grid position
    pos_pass,          \* for each isolines position, the pass i that pushed it
    idx_pass,          \* for each isolines index, the pass i that pushed it
    grid_cells_values, \* grid_cells_values of the last cell
    cell_grid_inds,    \* grid_inds of the last cell
    before_cell,       \* the sizes of isolines.positions and isolines.indices
                       \* before the last cell
    call_no,           \* which call of calculate_isolines is running: 1 or 2
    first_isolines,    \* the isolines the first call returned
    metaballs,         \* function.metaballs
    prev_metaballs,    \* function.metaballs before the last apply_movement
    last_dt,           \* the dt of the last apply_movement
    moves,             \* the calls of apply_movement so far
    frame_no,          \* the frames that have reached SDL_GL_SwapWindow
    frame_log,         \* the steps of the running frame, in the order they ran
    frame_values,      \* main's function_values of the frame: what it was
                       \* computed from, the sizes of its arrays
    frame_isolines,    \* main's isolines of the frame: what it was computed from
    drawn,             \* what the draw calls of the last frame were handed
    grid_positions_vbo, \* the entries last uploaded to grid_positions_vbo
    W, H,              \* main's grid resolution
    button_down,       \* main's button_down map, as the set of keys mapped to true
    running,           \* main's running flag
    last_keys          \* the branch of the key chain the last frame took, and
                       \* isolines_count before it

vars == <<pc, width, height, isolines_count, current_grid, function_values,
          isolines, i_iso, isoline_value, cell_i, cell_j,
          indices_after_interpolation, needs_interpolation, interp_calls,
          levels, field, pos_pass, idx_pass, grid_cells_values,
          cell_grid_inds, before_cell, call_no, first_isolines,
          metaballs, prev_metaballs, last_dt, moves,
          frame_no, frame_log, frame_values, frame_isolines, drawn,
          grid_positions_vbo,
          W, H, button_down, running, last_keys>>

\* the state of add_isoline and the loop of calculate_isolines
passVars == <<i_iso, isoline_value, cell_i, cell_j,
              indices_after_interpolation, needs_interpolation, interp_calls,
              levels, pos_pass, idx_pass, grid_cells_values, cell_grid_inds,
              before_cell>>

\* the calls of calculate_isolines
callVars == <<call_no, first_isolines>>

\* the state of main's frame loop
\* function.metaballs and the calls of apply_movement
moveVars == <<metaballs, prev_metaballs, last_dt, moves>>

\* the steps of a frame after the key handling, and the GPU buffer of the grid
frameVars == <<frame_no, frame_log, frame_values, frame_isolines, drawn>>

mainVars == <<W, H, button_down, running, last_keys, moveVars, frameVars,
              grid_positions_vbo>>

\* std::map<std::pair<int, int>, int> indices_after_interpolation; (empty)
EmptyCache == [key \in {} |-> 0]

\* mutant of LocalCache: the map outlives the call (a static or global map)
LocalCacheKept(previous) == previous

\* indices_after_interpolation is a local of add_isoline: whatever an earlier
\* call left, the call starts with an empty map and the map dies with it
LocalCache(previous) == EmptyCache

\* n copies of x
RECURSIVE Copies(_, _)
Copies(n, x) == IF n <= 0 THEN <<>> ELSE Append(Copies(n - 1, x), x)

\* int W = 400, H = 300;
InitW == 400
InitH == 300
\* int isolines_count = 5;
InitIsolinesCount == 5

\* the grids drawn as inputs: width, height >= 1
ValidDims ==
    {wh \in (1..MaxW) \X (1..MaxH) : (wh[1] + 1) * (wh[2] + 1) <= MaxVerts}

\* configurations drawn with malformed ones among them
AnyConfigs == (-2..1) \X (-2..1) \X (-1..1)

\* the results and locals of the pipeline before any function has run
InitPipe ==
    /\ function_values = [values |-> <<>>, colors |-> <<>>,
                          min_value |-> F(InitMinValue), max_value |-> F(InitMaxValue)]
    /\ isolines = [count |-> 0, positions |-> <<>>, indices |-> <<>>]
    /\ i_iso = 0
    /\ isoline_value = F(0)
    /\ cell_i = 0
    /\ cell_j = 0
    /\ indices_after_interpolation = EmptyCache
    /\ needs_interpolation = <<>>
    /\ interp_calls = <<>>
    /\ levels = <<>>
    /\ pos_pass = <<>>
    /\ idx_pass = <<>>
    /\ grid_cells_values = <<>>
    /\ cell_grid_inds = <<>>
    /\ before_cell = [positions |-> 0, indices |-> 0]
    /\ call_no = 1
    /\ first_isolines = [count |-> 0, positions |-> <<>>, indices |-> <<>>]

\* current_grid = grid(W, H): the vertex and index arrays of a grid of main's
\* resolution are not enumerated, the grid is kept by its dimensions
MainGrid(w, h) == [width |-> w, height |-> h]

\* positions.size() of a grid: one push_back per i in 0..height, j in 0..width;
\* none when a loop has no iteration
VertexCount(g) ==
    IF 0 <= g.height /\ 0 <= g.width THEN (g.width + 1) * (g.height + 1) ELSE 0

\* indices.size() of a grid: six push_backs per i in 0..height-1, j in 0..width-1;
\* none when a loop has no iteration
IndexCount(g) ==
    IF 0 < g.height /\ 0 < g.width THEN 6 * g.width * g.height ELSE 0

\* mutant of Upload: the buffer keeps the positions of the start-up grid
UploadStartUp(g) == VertexCount(MainGrid(InitW, InitH))

\* glBufferData(GL_ARRAY_BUFFER, current_grid.positions.size() * ..., ...):
\* the number of entries the buffer holds afterwards
Upload(g) == VertexCount(g)

\* main's function_values and isolines before the first frame has made them
NoValues == [count |-> 0, colors |-> 0, grid |-> MainGrid(0, 0),
             sources |-> <<>>, frame |-> 0]
NoIsolines == [count |-> 0, values |-> NoValues, grid |-> MainGrid(0, 0)]

\* main's locals before the frame loop
InitLoop ==
    /\ W = InitW
    /\ H = InitH
    /\ button_down = {}
    /\ running = TRUE
    /\ last_keys = [branch |-> "none", count |-> InitIsolinesCount]
    /\ last_dt = F(0)
    /\ moves = 0
    /\ frame_no = 0
    /\ frame_log = <<>>
    /\ frame_values = NoValues
    /\ frame_isolines = NoIsolines
    /\ drawn = [contour |-> NoIsolines, colors |-> NoValues,
                indices |-> 0, frame |-> 0]
    /\ grid_positions_vbo = Upload(MainGrid(InitW, InitH))

\* metaball_function function; the sources of the default member initializer
InitSources ==
    /\ field = <<>>
    /\ metaballs = InitialMetaballs
    /\ prev_metaballs = metaballs

\* a metaball_function handed to calculate_function whose metaballs member
\* holds the sources of a field drawn on the positions the grid will have
DrawnSources ==
    \E positions \in {GridPositions(width, height, 0, 0, <<>>)} :
        /\ field \in FieldsOn(positions)
        /\ metaballs = SourcesOn(positions, field)
        /\ prev_metaballs = metaballs

\* the pipeline on a well-formed configuration
Init ==
    /\ \E wh \in ValidDims : width = wh[1] /\ height = wh[2]
    /\ isolines_count \in 0..MaxCount
    /\ pc = "start"
    /\ current_grid = [width |-> 0, height |-> 0, positions |-> <<>>, indices |-> <<>>]
    /\ (InitSources \/ DrawnSources)
    /\ InitPipe
    /\ InitLoop

\* the pipeline on any configuration
InitAnyConfig ==
    /\ \E c \in AnyConfigs :
         width = c[1] /\ height = c[2] /\ isolines_count = c[3]
    /\ pc = "start"
    /\ current_grid = [width |-> 0, height |-> 0, positions |-> <<>>, indices |-> <<>>]
    /\ (InitSources \/ DrawnSources)
    /\ InitPipe
    /\ InitLoop

(***************************************************************************)
(* The pipeline of one frame: grid, sampling, isolines                     *)
(***************************************************************************)
\* grid current_grid(width, height);
ConstructGrid ==
    /\ pc = "start"
    /\ current_grid' = Grid(width, height)
    /\ pc' = "grid"
    /\ UNCHANGED <<width, height, isolines_count, function_values, isolines,
                   passVars, callVars, field, mainVars>>

\* mutant of GridAfter: the callee moves the positions out of its argument
GridAfterMovedFrom(grid) == [grid EXCEPT !.positions = <<>>]

\* the grid after a call that takes it as grid& (calculate_function,
\* calculate_isolines, add_isoline): the bodies only read it
GridAfter(grid) == grid

\* the frame times drawn for the frame of the pipeline: sources whose
\* direction is 0 stay where they are whatever dt is, and one dt is drawn
\* for them
PipeDts(sources) ==
    IF \A b \in 1..Len(sources) :
           IsZero(sources[b].direction.x) /\ IsZero(sources[b].direction.y)
    THEN StepDts ELSE MoveDts

\* function.apply_movement(dt); of the frame whose samples and isolines the
\* pipeline computes
MoveSources ==
    /\ pc = "grid"
    /\ \E dt \in PipeDts(metaballs) :
         /\ metaballs' = apply_movement(metaballs, dt)
         /\ last_dt' = dt
    /\ prev_metaballs' = metaballs
    /\ moves' = moves + 1
    /\ pc' = "moved"
    /\ UNCHANGED <<width, height, isolines_count, current_grid, function_values,
                   isolines, passVars, callVars, field, W, H, button_down,
                   running, last_keys, frameVars, grid_positions_vbo>>

\* auto function_values = calculate_function(current_grid, function);
CalculateFunction ==
    /\ pc = "moved"
    /\ function_values' = calculate_function(current_grid, metaballs)
    /\ current_grid' = GridAfter(current_grid)
    /\ pc' = "sampled"
    /\ UNCHANGED <<width, height, isolines_count, isolines,
                   passVars, callVars, field, mainVars>>

\* calculate_isolines: isolines isolines(isolines_count); int i = 1;
CalculateIsolines ==
    /\ pc = "sampled"
    /\ isolines' = [count |-> isolines_count, positions |-> <<>>, indices |-> <<>>]
    /\ i_iso' = 1
    /\ levels' = <<>>
    /\ pos_pass' = <<>>
    /\ idx_pass' = <<>>
    /\ pc' = "isolines"
    /\ UNCHANGED <<width, height, isolines_count, current_grid, function_values,
                   isoline_value, cell_i, cell_j, indices_after_interpolation,
                   needs_interpolation, interp_calls, grid_cells_values,
                   cell_grid_inds, before_cell, callVars, field, mainVars>>

\* calculate_isolines, i <= isolines_count: the call of add_isoline, up to
\* the start of its cell loop
AddIsolineBegin ==
    /\ pc = "isolines"
    /\ i_iso <= isolines_count
    /\ isoline_value' = IsolineValue(function_values, i_iso, isolines_count)
    /\ levels' = Append(levels, isoline_value')
    /\ indices_after_interpolation' = LocalCache(indices_after_interpolation)
    /\ cell_i' = 0
    /\ cell_j' = 0
    /\ needs_interpolation' = <<>>
    /\ interp_calls' = <<>>
    /\ grid_cells_values' = <<>>
    /\ cell_grid_inds' = <<>>
    /\ before_cell' = [positions |-> Len(isolines.positions),
                       indices   |-> Len(isolines.indices)]
    /\ pc' = "pass"
    /\ UNCHANGED <<width, height, isolines_count, current_grid, function_values,
                   isolines, i_iso, pos_pass, idx_pass, callVars, field, mainVars>>

\* the cell loops of add_isoline are at cell (cell_i, cell_j)
AtCell ==
    /\ cell_i < current_grid.height
    /\ cell_j < current_grid.width

\* add_isoline: one iteration of the cell loop, for cell (cell_i, cell_j)
ProcessCell ==
    /\ pc = "pass"
    /\ AtCell
    /\ \E grid_inds \in {GridInds(current_grid.width,
                                  cell_i * (current_grid.width + 1) + cell_j)} :
       \E d \in {GridCellsValues(function_values.values, grid_inds,
                                 isoline_value)} :
       \E needs \in {NeedsInterpolation(d)} :
       \E st \in {ResolveLoop(needs, 1, grid_inds, current_grid,
                              function_values.values, isoline_value,
                              [positions |-> isolines.positions,
                               indices   |-> isolines.indices,
                               cache     |-> indices_after_interpolation,
                               calls     |-> <<>>])} :
           /\ needs_interpolation' = needs
           /\ interp_calls' = st.calls
           /\ indices_after_interpolation' = st.cache
           /\ isolines' = [isolines EXCEPT !.positions = st.positions,
                                           !.indices = st.indices]
           /\ grid_cells_values' = d
           /\ cell_grid_inds' = grid_inds
           /\ before_cell' = [positions |-> Len(isolines.positions),
                              indices   |-> Len(isolines.indices)]
           /\ pos_pass' = pos_pass \o
                Copies(Len(st.positions) - Len(isolines.positions), i_iso)
           /\ idx_pass' = idx_pass \o
                Copies(Len(st.indices) - Len(isolines.indices), i_iso)
    /\ IF cell_j + 1 < current_grid.width
       THEN cell_j' = cell_j + 1 /\ cell_i' = cell_i
       ELSE cell_j' = 0 /\ cell_i' = cell_i + 1
    /\ UNCHANGED <<pc, width, height, isolines_count, current_grid,
                   function_values, i_iso, isoline_value, levels, callVars,
                   field, mainVars>>

\* add_isoline returns (its cache is destroyed); calculate_isolines: i++
AddIsolineEnd ==
    /\ pc = "pass"
    /\ ~AtCell
    /\ indices_after_interpolation' = LocalCache(indices_after_interpolation)
    /\ i_iso' = i_iso + 1
    /\ pc' = "isolines"
    /\ UNCHANGED <<width, height, isolines_count, current_grid, function_values,
                   isolines, isoline_value, cell_i, cell_j, needs_interpolation,
                   interp_calls, levels, pos_pass, idx_pass, grid_cells_values,
                   cell_grid_inds, before_cell, callVars, field, mainVars>>

\* calculate_isolines: return isolines;
ReturnIsolines ==
    /\ pc = "isolines"
    /\ ~(i_iso <= isolines_count)
    /\ pc' = "done"
    /\ UNCHANGED <<width, height, isolines_count, current_grid, function_values,
                   isolines, passVars, callVars, field, mainVars>>

\* calculate_isolines is called a second time on the same grid, the same
\* function_values and the same isolines_count
SecondCall ==
    /\ pc = "done"
    /\ call_no = 1
    /\ call_no' = 2
    /\ first_isolines' = isolines
    /\ pc' = "sampled"
    /\ UNCHANGED <<width, height, isolines_count, current_grid, function_values,
                   isolines, passVars, field, mainVars>>

Next ==
    \/ ConstructGrid
    \/ MoveSources
    \/ CalculateFunction
    \/ CalculateIsolines
    \/ AddIsolineBegin
    \/ ProcessCell
    \/ AddIsolineEnd
    \/ ReturnIsolines

Spec == Init /\ [][Next]_vars

SpecAnyConfig == InitAnyConfig /\ [][Next]_vars

\* the pipeline, and calculate_isolines called once more on its inputs
NextTwice ==
    \/ Next
    \/ SecondCall

SpecTwice == Init /\ [][NextTwice]_vars

(***************************************************************************)
(* main: the event loop and the key handling of a frame                    *)
(***************************************************************************)
\* the keys main reads: SDLK_RIGHT, SDLK_LEFT, SDLK_UP, SDLK_DOWN
Keys == {"RIGHT", "LEFT", "UP", "DOWN"}

\* std::min on int
IntMin(a, b) == IF b < a THEN b ELSE a

\* std::max on int
IntMax(a, b) == IF a < b THEN b ELSE a

\* mutant of LeftCount: the clamp at 0 is missing
LeftCountUnclamped(count) == count - 1

\* isolines_count = std::max(0, isolines_count - 1);
LeftCount(count) == IntMax(0, count - 1)

\* W = std::min(800, W + 20);
UpW(w) == IntMin(800, w + 20)

\* H = std::min(600, H + 15);
UpH(h) == IntMin(600, h + 15)

\* W = std::max(20, W - 20);
DownW(w) == IntMax(20, w - 20)

\* H = std::max(15, W - 15); W is the value just assigned
DownH(w, h) == IntMax(15, w - 15)

InitMain ==
    /\ pc = "poll"
    /\ width = InitW
    /\ height = InitH
    /\ isolines_count = InitIsolinesCount
    /\ current_grid = MainGrid(InitW, InitH)
    /\ InitSources
    /\ InitPipe
    /\ InitLoop

pipeVars == <<width, height, function_values, isolines, passVars, callVars, field>>

\* case SDL_KEYDOWN: button_down[event.key.keysym.sym] = true;
KeyDown(k) ==
    /\ pc = "poll"
    /\ button_down' = button_down \cup {k}
    /\ UNCHANGED <<pc, isolines_count, current_grid, W, H, running, last_keys, pipeVars, moveVars, frameVars,
                   grid_positions_vbo>>

\* case SDL_KEYUP: button_down[event.key.keysym.sym] = false;
KeyUp(k) ==
    /\ pc = "poll"
    /\ button_down' = button_down \ {k}
    /\ UNCHANGED <<pc, isolines_count, current_grid, W, H, running, last_keys, pipeVars, moveVars, frameVars,
                   grid_positions_vbo>>

\* case SDL_QUIT: running = false;
Quit ==
    /\ pc = "poll"
    /\ running' = FALSE
    /\ UNCHANGED <<pc, isolines_count, current_grid, W, H, button_down, last_keys, pipeVars, moveVars, frameVars,
                   grid_positions_vbo>>

\* SDL_PollEvent returns 0; if (!running) break;
PollEnd ==
    /\ pc = "poll"
    /\ pc' = IF running THEN "frame" ELSE "exited"
    /\ UNCHANGED <<isolines_count, current_grid, mainVars, pipeVars>>

\* the if / else if chain over button_down of one frame, control going to
\* after when it is through
KeyChain(after) ==
    /\ pc = "frame"
    /\ IF "RIGHT" \in button_down
       THEN /\ isolines_count' = isolines_count + 1
            /\ last_keys' = [branch |-> "RIGHT", count |-> isolines_count]
            /\ UNCHANGED <<W, H, current_grid, width, height, grid_positions_vbo>>
       ELSE IF "LEFT" \in button_down
       THEN /\ isolines_count' = LeftCount(isolines_count)
            /\ last_keys' = [branch |-> "LEFT", count |-> isolines_count]
            /\ UNCHANGED <<W, H, current_grid, width, height, grid_positions_vbo>>
       ELSE IF "UP" \in button_down
       THEN /\ W' = UpW(W)
            /\ H' = UpH(H)
            /\ width' = W'
            /\ height' = H'
            /\ current_grid' = MainGrid(W', H')
            /\ grid_positions_vbo' = Upload(current_grid')
            /\ last_keys' = [branch |-> "UP", count |-> isolines_count]
            /\ UNCHANGED isolines_count
       ELSE IF "DOWN" \in button_down
       THEN /\ W' = DownW(W)
            /\ H' = DownH(W', H)
            /\ width' = W'
            /\ height' = H'
            /\ current_grid' = MainGrid(W', H')
            /\ grid_positions_vbo' = Upload(current_grid')
            /\ last_keys' = [branch |-> "DOWN", count |-> isolines_count]
            /\ UNCHANGED isolines_count
       ELSE /\ last_keys' = [branch |-> "none", count |-> isolines_count]
            /\ UNCHANGED <<isolines_count, W, H, current_grid, width, height,
                           grid_positions_vbo>>
    /\ pc' = after
    /\ UNCHANGED <<button_down, running, function_values, isolines, passVars, callVars, field,
                   moveVars>>

(***************************************************************************)
(* The movement of the sources                                             *)
(***************************************************************************)
\* function.apply_movement(dt);
ApplyMovement ==
    /\ pc = "poll"
    /\ moves < MaxMoves
    /\ \E dt \in MoveDts :
         /\ metaballs' = apply_movement(metaballs, dt)
         /\ last_dt' = dt
    /\ prev_metaballs' = metaballs
    /\ moves' = moves + 1
    /\ UNCHANGED <<pc, isolines_count, current_grid, W, H, button_down, running,
                   last_keys, pipeVars, frameVars, grid_positions_vbo>>

NextMove == ApplyMovement

SpecMove == InitMain /\ [][NextMove]_vars

(***************************************************************************)
(* main: the whole frame                                                   *)
(***************************************************************************)
\* mutant of AfterStep: the sampling is done before the movement
AfterStepSampleFirst(step) ==
    CASE step = "keys"    -> "sample"
      [] step = "sample"  -> "move"
      [] step = "move"    -> "extract"
      [] step = "extract" -> "draw"
      [] step = "draw"    -> "poll"

\* the statements of the loop body after the event poll, in program order:
\* the key chain, apply_movement, calculate_function, calculate_isolines,
\* the draw calls, and back to the poll
AfterStep(step) ==
    CASE step = "keys"    -> "move"
      [] step = "move"    -> "sample"
      [] step = "sample"  -> "extract"
      [] step = "extract" -> "draw"
      [] step = "draw"    -> "poll"

\* the key handling of one frame, of the first cap frames
FrameKeys(cap) ==
    /\ frame_no < cap
    /\ KeyChain(AfterStep("keys"))
    /\ frame_log' = <<"keys">>
    /\ UNCHANGED <<frame_no, frame_values, frame_isolines, drawn>>

\* function.apply_movement(dt); dt, the time since the last frame, is one
\* of dts
FrameMove(dts) ==
    /\ pc = "move"
    /\ \E dt \in dts :
         /\ metaballs' = apply_movement(metaballs, dt)
         /\ last_dt' = dt
    /\ prev_metaballs' = metaballs
    /\ moves' = moves + 1
    /\ frame_log' = Append(frame_log, "move")
    /\ pc' = AfterStep("move")
    /\ UNCHANGED <<isolines_count, current_grid, W, H, button_down, running,
                   last_keys, pipeVars, frame_no, frame_values, frame_isolines,
                   drawn, grid_positions_vbo>>

\* auto function_values = calculate_function(current_grid, function);
\* one value and one colour per grid position, read from function's sources
FrameSample ==
    /\ pc = "sample"
    /\ frame_values' = [count   |-> VertexCount(current_grid),
                        colors  |-> VertexCount(current_grid),
                        grid    |-> current_grid,
                        sources |-> metaballs,
                        frame   |-> frame_no + 1]
    /\ frame_log' = Append(frame_log, "sample")
    /\ pc' = AfterStep("sample")
    /\ UNCHANGED <<isolines_count, current_grid, W, H, button_down, running,
                   last_keys, pipeVars, moveVars, frame_no, frame_isolines,
                   drawn, grid_positions_vbo>>

\* auto isolines = calculate_isolines(current_grid, function_values, isolines_count);
FrameExtract ==
    /\ pc = "extract"
    /\ frame_isolines' = [count  |-> isolines_count,
                          values |-> frame_values,
                          grid   |-> current_grid]
    /\ frame_log' = Append(frame_log, "extract")
    /\ pc' = AfterStep("extract")
    /\ UNCHANGED <<isolines_count, current_grid, W, H, button_down, running,
                   last_keys, pipeVars, moveVars, frame_no, frame_values,
                   drawn, grid_positions_vbo>>

\* the uploads of the isolines and of function_values.colors, the two
\* glDrawElements calls and SDL_GL_SwapWindow
FrameDraw ==
    /\ pc = "draw"
    /\ drawn' = [contour |-> frame_isolines,
                 colors  |-> frame_values,
                 indices |-> IndexCount(current_grid),
                 frame   |-> frame_no + 1]
    /\ frame_no' = frame_no + 1
    /\ frame_log' = Append(frame_log, "draw")
    /\ pc' = AfterStep("draw")
    /\ UNCHANGED <<isolines_count, current_grid, W, H, button_down, running,
                   last_keys, pipeVars, moveVars, frame_values, frame_isolines,
                   grid_positions_vbo>>

\* the frame loop, the user touching any of the four keys
NextMain ==
    \/ \E k \in Keys : KeyDown(k)
    \/ \E k \in Keys : KeyUp(k)
    \/ Quit
    \/ PollEnd
    \/ FrameKeys(MaxFrames)
    \/ FrameMove(MoveDts)
    \/ FrameSample
    \/ FrameExtract
    \/ FrameDraw

SpecMain == InitMain /\ [][NextMain]_vars

\* the keys that change isolines_count
CountKeys == {"RIGHT", "LEFT"}

\* the frame loop, the user touching RIGHT and LEFT only
NextCount ==
    \/ \E k \in CountKeys : KeyDown(k)
    \/ \E k \in CountKeys : KeyUp(k)
    \/ Quit
    \/ PollEnd
    \/ FrameKeys(MaxCountFrames)
    \/ FrameMove(StepDts)
    \/ FrameSample
    \/ FrameExtract
    \/ FrameDraw

SpecCount == InitMain /\ [][NextCount]_vars

\* the keys that change the resolution of the grid
ResizeKeys == {"UP", "DOWN"}

\* the frame loop, the user touching UP and DOWN only
NextResize ==
    \/ \E k \in ResizeKeys : KeyDown(k)
    \/ \E k \in ResizeKeys : KeyUp(k)
    \/ Quit
    \/ PollEnd
    \/ FrameKeys(MaxResizeFrames)
    \/ FrameMove(StepDts)
    \/ FrameSample
    \/ FrameExtract
    \/ FrameDraw

SpecResize == InitMain /\ [][NextResize]_vars

(***************************************************************************)
(* The program: the pipeline functions on the grids that can be            *)
(* enumerated, and main's loop at its own resolution                       *)
(***************************************************************************)
InitProgram == Init \/ InitMain

NextProgram ==
    \/ Next
    \/ NextMain

SpecProgram == InitProgram /\ [][NextProgram]_vars

(***************************************************************************)
(* Properties                                                              *)
(***************************************************************************)
\* the two cache keys name the same unordered pair of grid vertices
SameEdge(k1, k2) == {k1[1], k1[2]} = {k2[1], k2[2]}

\* C1: within one add_isoline pass, two crossings on the same unordered pair
\* of grid vertices resolve to the same position index: no unordered pair
\* of grid vertices has two position entries in the cache.
C1_UnorderedPairSharesPosition ==
    \A k1 \in DOMAIN indices_after_interpolation :
      \A k2 \in DOMAIN indices_after_interpolation :
        SameEdge(k1, k2) =>
          indices_after_interpolation[k1] = indices_after_interpolation[k2]

\* C2: for width, height >= 1 the constructor produces (width+1)*(height+1)
\* positions and 6*width*height indices, each in [0, (width+1)*(height+1)).
C2_GridSizes ==
    (pc # "start" /\ width >= 1 /\ height >= 1) =>
      /\ Len(current_grid.positions) = (width + 1) * (height + 1)
      /\ Len(current_grid.indices) = 6 * width * height
      /\ \A n \in DOMAIN current_grid.indices :
           /\ 0 <= current_grid.indices[n]
           /\ current_grid.indices[n] < (width + 1) * (height + 1)

\* C2 witness: a grid of two cells has been constructed
C2_Witness ==
    /\ pc = "grid"
    /\ width = 2
    /\ height = 1
    /\ Len(current_grid.indices) = 12

\* the level of pass k, min + (max - min) * k / (n + 1) evaluated in float
\* from left to right
IsLevel(level, k, n) ==
    level = FAdd(function_values.min_value,
                 FDiv(FMul(FSub(function_values.max_value,
                                function_values.min_value), F(k)),
                      F(n + 1)))

\* C3: calculate_isolines with isolines_count = n runs exactly n passes, the
\* k-th at level min + (max-min)*k/(n+1); when min < max every level is
\* strictly between min and max; with n = 0 no pass runs and the contour
\* set is empty.
C3_Levels ==
    /\ Len(levels) <= isolines_count
    /\ pc = "done" => Len(levels) = isolines_count
    /\ \A k \in DOMAIN levels :
         /\ IsLevel(levels[k], k, isolines_count)
         /\ FLt(function_values.min_value, function_values.max_value) =>
              /\ FLt(function_values.min_value, levels[k])
              /\ FLt(levels[k], function_values.max_value)
    /\ (pc = "done" /\ isolines_count = 0) =>
         /\ isolines.positions = <<>>
         /\ isolines.indices = <<>>

\* C4: after any sequence of frames the grid resolution used to build
\* current_grid satisfies 20 <= W <= 800 and 15 <= H <= 600.
C4_ResolutionClamped ==
    /\ 20 <= W /\ W <= 800
    /\ 15 <= H /\ H <= 600
    /\ current_grid.width = W
    /\ current_grid.height = H

\* C5: after any sequence of frames isolines_count is never negative, and a
\* frame with LEFT held at 0 leaves it at 0.
C5_IsolinesCountNonNegative ==
    /\ isolines_count >= 0
    /\ (last_keys.branch = "LEFT" /\ last_keys.count = 0) => isolines_count = 0

\* C5 witness: a frame has taken the LEFT branch with isolines_count at 0
C5_Witness ==
    /\ pc = "poll"
    /\ last_keys.branch = "LEFT"
    /\ last_keys.count = 0
    /\ isolines_count = 0

\* C6: a grid with width <= 0 or height <= 0, or an extraction with
\* isolines_count < 0, is rejected with an error: control never gets past
\* the constructor, nor into calculate_isolines.  "rejected" is the position
\* of a thrown error.
C6_MalformedRejected ==
    /\ (width <= 0 \/ height <= 0) => pc \in {"start", "rejected"}
    /\ isolines_count < 0 => pc \in {"start", "grid", "moved", "sampled", "rejected"}

\* the colour of t = 0
NeutralColour == [r |-> F(1), g |-> F(1), b |-> F(1)]

\* C7: when every sampled value is equal (min_value == max_value),
\* calculate_function gives every vertex the colour of t = 0, (1,1,1), and
\* no channel is NaN.
C7_FlatFieldNeutralColour ==
    (pc \notin {"start", "grid", "moved"}
       /\ FEq(function_values.min_value, function_values.max_value)) =>
      \A n \in DOMAIN function_values.colors :
        function_values.colors[n] = NeutralColour

\* C8: when interpolate_coords is called with value1 == value2, t is taken
\* as 0 and the result is coord1, with finite coordinates.
C8_EqualValuesSnapToFirst ==
    \A n \in DOMAIN interp_calls :
      FEq(interp_calls[n].value1, interp_calls[n].value2) =>
        /\ interp_calls[n].result = interp_calls[n].coord1
        /\ IsFinite(interp_calls[n].result.x)
        /\ IsFinite(interp_calls[n].result.y)

\* C9: for every pair add_isoline passes to interpolate_coords the endpoint
\* values differ, unless both equal the isoline value.
C9_NoZeroDivisorAwayFromLevel ==
    \A n \in DOMAIN interp_calls :
      \/ ~FEq(interp_calls[n].value1, interp_calls[n].value2)
      \/ /\ FEq(interp_calls[n].value1, interp_calls[n].value)
         /\ FEq(interp_calls[n].value2, interp_calls[n].value)

\* C10: calculate_function returns values and colors of the length and in
\* the order of grid.positions (the n-th value is the sample at the n-th
\* position: for a field drawn on the grid, the strength of the source on
\* that position divided by 5; the n-th colour is the colour of the n-th
\* value), min_value <= v <= max_value for every sampled v, and min_value
\* and max_value are each a sampled value.
C10_SampleMinMax ==
    LET fv == function_values
    IN  pc \notin {"start", "grid", "moved"} =>
            /\ Len(fv.values) = Len(current_grid.positions)
            /\ Len(fv.colors) = Len(current_grid.positions)
            /\ \A n \in DOMAIN field : fv.values[n] = FDiv(field[n], F(5))
            /\ \A n \in DOMAIN fv.colors :
                  fv.colors[n] = value_to_color(fv.values[n], fv.min_value,
                                                fv.max_value)
            /\ \A n \in DOMAIN fv.values :
                  /\ FLe(fv.min_value, fv.values[n])
                  /\ FLe(fv.values[n], fv.max_value)
            /\ \E n \in DOMAIN fv.values : fv.values[n] = fv.min_value
            /\ \E n \in DOMAIN fv.values : fv.values[n] = fv.max_value

\* C11: the cache belongs to one add_isoline pass: every index pushed by
\* pass k points at a position pushed by the same pass k, so no position
\* created in one pass is referenced by an index of another pass.
C11_IndicesStayInPass ==
    /\ Len(pos_pass) = Len(isolines.positions)
    /\ Len(idx_pass) = Len(isolines.indices)
    /\ \A n \in 1..Len(isolines.indices) :
         /\ isolines.indices[n] + 1 \in 1..Len(pos_pass)
         /\ pos_pass[isolines.indices[n] + 1] = idx_pass[n]

\* two passes have both pushed indices, and each has pushed a position on
\* the same vertical grid line
C11_Witness ==
    /\ pc = "done"
    /\ \E n, m \in 1..Len(idx_pass) : idx_pass[n] = 1 /\ idx_pass[m] = 2
    /\ \E p, q \in 1..Len(pos_pass) :
         /\ pos_pass[p] = 1 /\ pos_pass[q] = 2
         /\ isolines.positions[p].x = isolines.positions[q].x

\* C12: after every processed cell, and when calculate_isolines returns, the
\* index list of the contour has even length and every index i in it
\* satisfies 0 <= i < positions.size().
C12_IndicesWellFormed ==
    /\ Len(isolines.indices) % 2 = 0
    /\ \A n \in 1..Len(isolines.indices) :
         /\ 0 <= isolines.indices[n]
         /\ isolines.indices[n] < Len(isolines.positions)

\* calculate_isolines has returned a contour of at least two segments in
\* which a cache hit made two indices share a position
C12_Witness ==
    /\ pc = "done"
    /\ Len(isolines.indices) >= 4
    /\ Len(isolines.indices) > Len(isolines.positions)

\* C13: calculate_isolines called a second time on the same grid, the same
\* function_values and the same isolines_count returns the same positions and
\* the same indices as the first call.
C13_SecondCallIdentical ==
    (pc = "done" /\ call_no = 2) =>
        /\ isolines.positions = first_isolines.positions
        /\ isolines.indices = first_isolines.indices

\* the second call has returned a contour with a segment in it
C13_Witness ==
    /\ pc = "done"
    /\ call_no = 2
    /\ Len(isolines.indices) >= 2
    /\ Len(first_isolines.indices) >= 2

\* C14: on a flat sample (min_value == max_value), whatever the isoline
\* count, calculate_isolines never calls interpolate_coords, never inserts
\* into the cache, and the contour it builds and returns is empty.
C14_FlatSampleEmptyContour ==
    (/\ pc \in {"isolines", "pass", "done"}
     /\ FEq(function_values.min_value, function_values.max_value)) =>
        /\ interp_calls = <<>>
        /\ indices_after_interpolation = EmptyCache
        /\ isolines.positions = <<>>
        /\ isolines.indices = <<>>

\* calculate_isolines has returned from a flat sample after passes that
\* went over the cells
C14_Witness ==
    /\ pc = "done"
    /\ FEq(function_values.min_value, function_values.max_value)
    /\ isolines_count >= 2
    /\ Len(levels) = isolines_count
    /\ grid_cells_values # <<>>
    /\ \A k \in 1..4 : FEq(grid_cells_values[k], F(0))

\* |v| is beyond the 5.0 bound
Outside(v) == FLt(F(5), v) \/ FLt(v, F(-5))

\* the two axes of a source: its position before the last step, after it,
\* its velocity before the step and after it
AxisSteps(b) ==
    { [pre  |-> prev_metaballs[b].position.x, post |-> metaballs[b].position.x,
       vpre |-> prev_metaballs[b].direction.x, vpost |-> metaballs[b].direction.x],
      [pre  |-> prev_metaballs[b].position.y, post |-> metaballs[b].position.y,
       vpre |-> prev_metaballs[b].direction.y, vpost |-> metaballs[b].direction.y] }

\* C15 as claimed: apply_movement flips a velocity component exactly on the
\* steps whose pre-step and post-step positions are on different sides of
\* the 5.0 bound, and leaves it alone on the steps that stay on one side.
C15_FlipExactlyOnCrossing ==
    moves > 0 =>
      \A b \in 1..Len(metaballs) : \A s \in AxisSteps(b) :
        s.vpost = IF Outside(s.pre) # Outside(s.post)
                  THEN FNeg(s.vpre) ELSE s.vpre

\* C15 as amended: apply_movement flips a velocity component exactly on the
\* steps whose post-step position has |position.axis| > 5.0, whatever side
\* the pre-step position was on; each axis is decided on its own position.
C15_FlipExactlyWhenOutsideAfterStep ==
    moves > 0 =>
      \A b \in 1..Len(metaballs) :
        /\ metaballs[b].position.x =
             FAdd(prev_metaballs[b].position.x,
                  FMul(last_dt, prev_metaballs[b].direction.x))
        /\ metaballs[b].position.y =
             FAdd(prev_metaballs[b].position.y,
                  FMul(last_dt, prev_metaballs[b].direction.y))
        /\ \A s \in AxisSteps(b) :
             s.vpost = IF Outside(s.post) THEN FNeg(s.vpre) ELSE s.vpre

\* a step began and ended beyond the bound on an axis and flipped the moving
\* source again, while another step crossed the bound inwards without a flip
C15_Witness ==
    /\ moves > 0
    /\ \E b \in 1..Len(metaballs) : \E s \in AxisSteps(b) :
         /\ Outside(s.pre) /\ Outside(s.post)
         /\ ~FEq(s.vpre, F(0))
         /\ s.vpost = FNeg(s.vpre)
    /\ \E b \in 1..Len(metaballs) : \E s \in AxisSteps(b) :
         /\ Outside(s.pre) /\ ~Outside(s.post)
         /\ s.vpost = s.vpre

\* C16: across any sequence of apply_movement calls the absolute value of
\* every velocity component equals its initial value, the number of sources
\* is unchanged and so are r and c of every source.
C16_SpeedsAndSourcesKept ==
    /\ Len(metaballs) = Len(InitialMetaballs)
    /\ \A b \in 1..Len(metaballs) :
         /\ FAbs(metaballs[b].direction.x) = FAbs(InitialMetaballs[b].direction.x)
         /\ FAbs(metaballs[b].direction.y) = FAbs(InitialMetaballs[b].direction.y)
         /\ metaballs[b].r = InitialMetaballs[b].r
         /\ metaballs[b].c = InitialMetaballs[b].c

\* after several calls a source moves against its initial direction on
\* one axis and with it on the other
C16_Witness ==
    /\ moves >= 3
    /\ \E b \in 1..Len(metaballs) :
         /\ ~FEq(InitialMetaballs[b].direction.x, F(0))
         /\ metaballs[b].direction.x = FNeg(InitialMetaballs[b].direction.x)
         /\ metaballs[b].direction.y = InitialMetaballs[b].direction.y

\* add_isoline has just finished the body of its loop for a cell
CellDone == pc = "pass" /\ grid_cells_values # <<>>

\* the corners k = 0..3 of the last cell whose value is above the isoline
PositiveCorners == {k \in 0..3 : FLt(F(0), grid_cells_values[k + 1])}

\* the corners of the last cell whose value is exactly on the isoline
ZeroCorners == {k \in 0..3 : FEq(grid_cells_values[k + 1], F(0))}

\* d_a * d_b of the last cell
CornerProduct(a, b) == FMul(grid_cells_values[a + 1], grid_cells_values[b + 1])

\* the indices the last cell pushed
CellIndices ==
    SubSeq(isolines.indices, before_cell.indices + 1, Len(isolines.indices))

\* the point where the isoline crosses the edge between two corners of the
\* last cell, taken from the first corner of the pair to the second
EdgePosition(pair) ==
    LET a == cell_grid_inds[pair[1] + 1]
        b == cell_grid_inds[pair[2] + 1]
    IN  interpolate_coords(current_grid.positions[a + 1],
                           current_grid.positions[b + 1],
                           function_values.values[a + 1],
                           function_values.values[b + 1], isoline_value)

\* the last cell has emitted exactly the crossings of pairs, in that order:
\* one index per crossing, each pointing at the position of its crossing
CellEmits(pairs) ==
    /\ needs_interpolation = pairs
    /\ Len(CellIndices) = Len(pairs)
    /\ \A n \in 1..Len(pairs) :
         /\ CellIndices[n] + 1 \in 1..Len(isolines.positions)
         /\ isolines.positions[CellIndices[n] + 1] = EdgePosition(pairs[n])

\* C17: a cell with no corner or all four corners above the isoline (corners
\* exactly on it count as not above) pushes no position and no index.
C17_NoneOrAllAboveEmitsNothing ==
    (CellDone /\ Cardinality(PositiveCorners) \in {0, 4}) =>
        /\ needs_interpolation = <<>>
        /\ Len(isolines.positions) = before_cell.positions
        /\ Len(isolines.indices) = before_cell.indices

\* a cell with corners on the isoline and below it, none above, was done
\* after an earlier cell of the pass had pushed a segment
C17_Witness ==
    /\ CellDone
    /\ PositiveCorners = {}
    /\ ZeroCorners # {}
    /\ ZeroCorners # 0..3
    /\ before_cell.indices >= 2

\* C18: in a cell with exactly 1 or 3 corners above the isoline and no corner
\* on it, exactly one corner k has d_k * d_(k+3)%4 < 0 and
\* d_k * d_(k+1)%4 < 0, and the cell emits exactly one segment: the
\* crossings (k, (k+3)%4) and (k, (k+1)%4), in that order.
C18_OneOrThreeAboveEmitsOneSegment ==
    (CellDone /\ Cardinality(PositiveCorners) \in {1, 3} /\ ZeroCorners = {}) =>
        LET odd == {k \in 0..3 :
                      /\ FLt(CornerProduct(k, (k + 3) % 4), F(0))
                      /\ FLt(CornerProduct(k, (k + 1) % 4), F(0))}
        IN  /\ Cardinality(odd) = 1
            /\ \A k \in odd :
                 CellEmits(<< <<k, (k + 3) % 4>>, <<k, (k + 1) % 4>> >>)

\* C19: in a cell with exactly 2 corners above the isoline: if d0 * d1 > 0
\* the cell emits exactly the crossings (0,3), (1,2); otherwise, if
\* d0 * d3 > 0, it emits exactly the crossings (0,1), (2,3).
C19_TwoAboveAdjacent ==
    (CellDone /\ Cardinality(PositiveCorners) = 2) =>
        /\ FLt(F(0), CornerProduct(0, 1)) =>
             CellEmits(<< <<0, 3>>, <<1, 2>> >>)
        /\ (~FLt(F(0), CornerProduct(0, 1)) /\ FLt(F(0), CornerProduct(0, 3))) =>
             CellEmits(<< <<0, 1>>, <<2, 3>> >>)

\* a cell with corners 0 and 3 on one side and corners 1 and 2 on the other
\* was done
C19_Witness ==
    /\ CellDone
    /\ Cardinality(PositiveCorners) = 2
    /\ ~FLt(F(0), CornerProduct(0, 1))
    /\ FLt(F(0), CornerProduct(0, 3))
    /\ Len(CellIndices) = 2

\* C20: in a cell with exactly 2 corners above the isoline and neither
\* d0 * d1 > 0 nor d0 * d3 > 0 the cell emits all four crossings, in the
\* order (0,1), (1,2), (0,3), (2,3): two segments, whatever the value at the
\* centre of the cell.
C20_TwoAboveSaddle ==
    (/\ CellDone
     /\ Cardinality(PositiveCorners) = 2
     /\ ~FLt(F(0), CornerProduct(0, 1))
     /\ ~FLt(F(0), CornerProduct(0, 3))) =>
        CellEmits(<< <<0, 1>>, <<1, 2>>, <<0, 3>>, <<2, 3>> >>)

\* a cell whose diagonal corners 0 and 2 are above the isoline and whose
\* corners 1 and 3 are below it was done
C20_Witness ==
    /\ CellDone
    /\ PositiveCorners = {0, 2}
    /\ ZeroCorners = {}
    /\ Len(CellIndices) = 4

\* twice the signed area of the triangle of grid vertices a, b, c (vertex
\* indices) in position space: (b - a) x (c - a)
SignedArea(a, b, c) ==
    LET pa == current_grid.positions[a + 1]
        pb == current_grid.positions[b + 1]
        pc3 == current_grid.positions[c + 1]
    IN  FSub(FMul(FSub(pb.x, pa.x), FSub(pc3.y, pa.y)),
             FMul(FSub(pb.y, pa.y), FSub(pc3.x, pa.x)))

\* the n-th triangle (n = 0, 1, ...) of the index list of the grid
GridTriangle(n) == SubSeq(current_grid.indices, 3 * n + 1, 3 * n + 3)

\* the triangle is not degenerate and turns the way the first triangle of
\* the grid turns
SameWinding(t) ==
    LET t0 == GridTriangle(0)
        a0 == SignedArea(t0[1], t0[2], t0[3])
        a  == SignedArea(t[1], t[2], t[3])
    IN  /\ ~FEq(a, F(0))
        /\ FLt(F(0), a) <=> FLt(F(0), a0)

\* C21: for every cell (i, j) the two triangles use only the four corners
\* ind, ind + 1, ind + width + 1, ind + width + 2 of the cell
\* (ind = i * (width + 1) + j), together use all four, and all triangles of
\* the grid have the same winding in position space.
C21_CellTrianglesAndWinding ==
    (pc # "start" /\ width >= 1 /\ height >= 1) =>
      \A i \in 0..(height - 1) : \A j \in 0..(width - 1) :
        LET ind     == i * (width + 1) + j
            corners == {ind, ind + 1, ind + width + 1, ind + width + 2}
            t1      == GridTriangle(2 * (i * width + j))
            t2      == GridTriangle(2 * (i * width + j) + 1)
        IN  /\ Len(t1) = 3 /\ Len(t2) = 3
            /\ {t1[n] : n \in 1..3} \subseteq corners
            /\ {t2[n] : n \in 1..3} \subseteq corners
            /\ {t1[n] : n \in 1..3} \cup {t2[n] : n \in 1..3} = corners
            /\ SameWinding(t1)
            /\ SameWinding(t2)

\* a grid of two rows of one cell has been constructed: four triangles
C21_Witness ==
    /\ pc = "grid"
    /\ width = 1
    /\ height = 2
    /\ Len(current_grid.indices) = 12
    /\ SameWinding(GridTriangle(3))

\* the steps of a frame after the event poll, in the order the claim gives
FrameOrder == <<"keys", "move", "sample", "extract", "draw">>

\* C22: in every frame the steps run in the order apply_movement,
\* calculate_function, calculate_isolines, draw calls, each once per frame;
\* the contour and the colours handed to the draw calls are those computed
\* in this frame, from the sources as this frame's apply_movement left them.
C22_FrameOrder ==
    /\ Len(frame_log) <= Len(FrameOrder)
    /\ frame_log = SubSeq(FrameOrder, 1, Len(frame_log))
    /\ (frame_log = FrameOrder) =>
         /\ moves = frame_no
         /\ drawn.frame = frame_no
         /\ drawn.colors = frame_values
         /\ drawn.contour = frame_isolines
         /\ frame_isolines.values = frame_values
         /\ frame_values.frame = frame_no
         /\ frame_values.sources = metaballs
         /\ frame_values.grid = current_grid
         /\ frame_isolines.count = isolines_count

\* the second frame has been drawn, its sources differing from those the
\* first frame sampled
C22_Witness ==
    /\ frame_no = 2
    /\ frame_log = FrameOrder
    /\ pc = "poll"
    /\ drawn.frame = 2
    /\ drawn.colors.sources = metaballs
    /\ drawn.colors.sources # prev_metaballs

\* C23: a resize replaces current_grid by grid(W, H): at every draw the grid
\* has the dimensions W and H (both at least 1), the position buffer last
\* uploaded has (W + 1) * (H + 1) entries, and so have the values and the
\* colours of the frame; the grid's index list has 6 * W * H entries.
C23_ResizeRebuildsGrid ==
    /\ current_grid.width = W
    /\ current_grid.height = H
    /\ W >= 1
    /\ H >= 1
    /\ grid_positions_vbo = (W + 1) * (H + 1)
    /\ (pc = "draw" \/ frame_log = FrameOrder) =>
         /\ frame_values.count = (W + 1) * (H + 1)
         /\ frame_values.colors = (W + 1) * (H + 1)
         /\ frame_values.grid = current_grid
    /\ (frame_log = FrameOrder) =>
         /\ drawn.colors.colors = (W + 1) * (H + 1)
         /\ drawn.indices = 6 * W * H

\* a frame has been drawn whose key handling shrank the grid, after a frame
\* that had drawn another grid
C23_Witness ==
    /\ frame_log = FrameOrder
    /\ frame_no = 2
    /\ last_keys.branch = "DOWN"
    /\ W = 380
    /\ drawn.colors.grid = MainGrid(W, H)
    /\ grid_positions_vbo # VertexCount(MainGrid(InitW, InitH))

\* C24: calculate_function and calculate_isolines leave the grid and the
\* sources as they were, calculate_isolines leaves the sampled values,
\* colours, min_value and max_value as they were; only apply_movement
\* changes the sources, and only the construction of a grid (at start-up or
\* in a resize of the key handling) changes the grid.
C24_FrameEffects ==
    [][/\ (pc \in {"moved", "sample"}) =>
            /\ current_grid' = current_grid
            /\ metaballs' = metaballs
       /\ (pc \in {"sampled", "isolines", "pass"}) =>
            /\ current_grid' = current_grid
            /\ metaballs' = metaballs
            /\ function_values' = function_values
       /\ (pc = "extract") =>
            /\ current_grid' = current_grid
            /\ metaballs' = metaballs
            /\ frame_values' = frame_values
       /\ (metaballs' # metaballs) => pc \in {"grid", "move"}
       /\ (current_grid' # current_grid) =>
            \/ pc = "start"
            \/ pc = "frame" /\ last_keys'.branch \in {"UP", "DOWN"}
      ]_vars

\* calculate_isolines has returned a contour; the grid and the values it
\* was given are complete
C24_Witness ==
    /\ pc = "done"
    /\ Len(isolines.indices) >= 2
    /\ Len(current_grid.positions) = (width + 1) * (height + 1)
    /\ Len(function_values.values) = Len(current_grid.positions)
    /\ Len(function_values.colors) = Len(current_grid.positions)

\* the four edges of a cell, as sets of two corners
CellEdges == {{0, 1}, {1, 2}, {2, 3}, {3, 0}}

\* the corner pairs the last cell emitted, as sets of two corners
EmittedEdges ==
    {{needs_interpolation[n][1], needs_interpolation[n][2]} :
       n \in 1..Len(needs_interpolation)}

\* C25: for a cell with no corner exactly on the isoline, the corner pairs
\* emitted are exactly the edges of the cell whose endpoints have d of
\* opposite sign, each emitted once.
C25_EmitsSignChangingEdges ==
    (CellDone /\ ZeroCorners = {}) =>
        LET changing == {e \in CellEdges :
                           \E a, b \in e :
                             /\ FLt(grid_cells_values[a + 1], F(0))
                             /\ FLt(F(0), grid_cells_values[b + 1])}
        IN  /\ EmittedEdges = changing
            /\ Len(needs_interpolation) = Cardinality(changing)
            /\ Len(CellIndices) = Cardinality(changing)

\* v lies between a and b, ends included
Between(v, a, b) ==
    \/ FLe(a, v) /\ FLe(v, b)
    \/ FLe(b, v) /\ FLe(v, a)

\* C26: for every crossing (A, B) emitted, values exactly on the isoline
\* included, the values at A and B are on opposite sides of the isoline
\* (one >= L, the other <= L), and the position pushed for it lies on the
\* grid edge between A and B.
C26_CrossingsOnTheirEdge ==
    CellDone =>
      /\ \A n \in 1..Len(needs_interpolation) :
           LET da == grid_cells_values[needs_interpolation[n][1] + 1]
               db == grid_cells_values[needs_interpolation[n][2] + 1]
           IN  \/ FLe(F(0), da) /\ FLe(db, F(0))
               \/ FLe(da, F(0)) /\ FLe(F(0), db)
      /\ \A n \in 1..Len(interp_calls) :
           LET c == interp_calls[n]
           IN  /\ Between(c.result.x, c.coord1.x, c.coord2.x)
               /\ Between(c.result.y, c.coord1.y, c.coord2.y)

\* C27: every corner pair emitted joins two cyclically adjacent corners of
\* the cell, never a diagonal, and the two grid vertices handed to
\* interpolate_coords share their row (y) or their column (x).
C27_PairsAreCellEdges ==
    CellDone =>
      /\ EmittedEdges \subseteq CellEdges
      /\ \A n \in 1..Len(needs_interpolation) :
           (needs_interpolation[n][2] - needs_interpolation[n][1]) % 4 \in {1, 3}
      /\ \A n \in 1..Len(interp_calls) :
           LET c == interp_calls[n]
           IN  \/ FEq(c.coord1.y, c.coord2.y) /\ ~FEq(c.coord1.x, c.coord2.x)
               \/ FEq(c.coord1.x, c.coord2.x) /\ ~FEq(c.coord1.y, c.coord2.y)

\* a cell has emitted all four pairs and interpolate_coords was called on
\* a horizontal and on a vertical edge
C27_Witness ==
    /\ CellDone
    /\ Len(needs_interpolation) = 4
    /\ \E n, m \in 1..Len(interp_calls) :
         /\ FEq(interp_calls[n].coord1.y, interp_calls[n].coord2.y)
         /\ FEq(interp_calls[m].coord1.x, interp_calls[m].coord2.x)

\* the running add_isoline pass has gone over all the cells
PassOver == pc = "pass" /\ ~AtCell

\* the isoline value of the running pass is strictly between min_value and
\* max_value and no grid vertex has exactly that value
LevelInsideNoVertexOnIt ==
    /\ FLt(function_values.min_value, isoline_value)
    /\ FLt(isoline_value, function_values.max_value)
    /\ \A v \in 1..Len(function_values.values) :
         ~FEq(function_values.values[v], isoline_value)

\* C28: if min_value < L < max_value and no grid vertex has the value L, an
\* add_isoline pass pushes at least one segment: at least two indices and at
\* least one position.
C28_PassEmitsSegment ==
    (PassOver /\ LevelInsideNoVertexOnIt) =>
        /\ Cardinality({n \in 1..Len(idx_pass) : idx_pass[n] = i_iso}) >= 2
        /\ \E p \in 1..Len(pos_pass) : pos_pass[p] = i_iso

\* C29: from W = 400, H = 300, after any frames with UP or DOWN held, the
\* resolution keeps the ratio 4:3, 3 * W = 4 * H (the first half of the
\* claim; a DOWN step that breaks it does not restore the (W, H) before an
\* UP step either).
C29_RatioKept == 3 * W = 4 * H

\* C30: whenever a source ends a step with |position.axis| > 5, its velocity
\* on that axis points back to the interior: its sign is opposite to the
\* sign of position.axis.
C30_OutsideMovesInward ==
    moves > 0 =>
      \A b \in 1..Len(metaballs) : \A s \in AxisSteps(b) :
        /\ FLt(F(5), s.post) => FLt(s.vpost, F(0))
        /\ FLt(s.post, F(-5)) => FLt(F(0), s.vpost)

====
